---- MODULE Spec2Model ----
(***************************************************************************)
(* Ground station (gcs.rs) link-health loop and metrics, the spacecraft    *)
(* side command queue (mock_ocs/command.rs) and metrics                    *)
(* (mock_ocs/metrics.rs), as state machines.                               *)
(***************************************************************************)
EXTENDS Integers, Sequences, FiniteSets, TLC

VARIABLES
    metrics,            \* GCS.metrics : GCSPerformanceMetrics
    faults,             \* the faults handed to record_fault, in call order
    outcomes,           \* history: outcome of every recv_from of GCS::run
    raised,             \* history: the faults recorded in each iteration of GCS::run
    received,           \* history: the bytes each iteration of GCS::run read (<<>> on Err)
    gcs,                \* the fields of GCS besides socket and metrics
    gcs_pc,             \* where GCS::run is: in its loop, or returned
    report_out,         \* what the last report() of each side computed
    mock,               \* MockOCS (mock_ocs/main.rs): its metrics, counter and send history
    now,                \* the monotonic clock read by Instant::now(), in us
    queue,              \* CommandExecutor.queue
    execution_history,  \* CommandExecutor.execution_history
    next_command_id,    \* CommandExecutor.next_command_id
    last_result,        \* what the last execute_next returned
    issued,             \* history: priority of every command, by command_id
    drain_start,        \* history: first execution_history index after the last add_command
    full_adds,          \* history: every add_command made on a full queue
    ocs_metrics,        \* PerformanceMetrics of mock_ocs/metrics.rs
    calls,              \* history: number of recording calls made directly
    executions,         \* history: number of execute_next calls
    dispatches,         \* history: per executed command, when issued, when dispatched, the record
    codec,              \* a record on its way through generator, encoders, decoders, classifier
    uplink,             \* a ground-side Command (gcs.rs) and its is_overdue reading
    state,              \* the OperationalState inside Arc<Mutex<..>>
    mutex,              \* who holds the Mutex of the OperationalState
    receiver            \* the CommandReceiver threads over that state: where each is

vars == <<metrics, faults, outcomes, raised, now, queue, execution_history,
          next_command_id, last_result, issued, drain_start, full_adds,
          ocs_metrics, calls, executions, dispatches, received, gcs, gcs_pc,
          report_out, mock, codec, uplink, state, mutex,
          receiver>>

gcs_vars == <<metrics, faults, outcomes, raised, received, gcs, gcs_pc>>
side_vars == <<report_out, mock>>
cmd_vars == <<queue, execution_history, next_command_id, last_result, issued,
              drain_start, full_adds, executions, dispatches>>
ops_vars == <<state, mutex, receiver>>

----------------------------------------------------------------------------
(* Program constants *)

TELEMETRY_SIZE == 14
LOSS_OF_CONTACT_THRESHOLD == 3
EXPECTED_PACKET_INTERVAL_MS == 500
DECODE_LATENCY_THRESHOLD_US == 3000
MAX_COMMAND_QUEUE_SIZE == 20
\* u128::MAX, the initial min_decode_us / min_latency_us; the largest integer
\* TLC represents stands for it (every modelled sample is far below it).
U128_MAX == 2147483647

----------------------------------------------------------------------------
(* Bounds of the model *)

MaxIter == 7        \* iterations of the GCS receive loop
MaxCommands == 4    \* commands submitted in the ordering specification
MaxExec == 5        \* execute_next calls in the ordering specification
MaxFill == 21       \* commands submitted in the capacity specification
MaxUrgent == 1      \* of which at most this many above routine priority
MaxFillExec == 1    \* execute_next calls in the capacity specification
MaxOps == 5         \* recording operations in the metrics specification

----------------------------------------------------------------------------
(* Option<T> *)

None == <<>>
Some(x) == <<x>>
IsSome(o) == Len(o) = 1
Unwrap(o) == o[1]

Min(a, b) == IF a <= b THEN a ELSE b
Max(a, b) == IF a >= b THEN a ELSE b

----------------------------------------------------------------------------
(* Telemetry codec and classifier *)

RECURSIVE to_le_bytes(_, _)
to_le_bytes(v, n) ==
    IF n = 0 THEN <<>> ELSE <<v % 256>> \o to_le_bytes(v \div 256, n - 1)

RECURSIVE from_le_bytes(_)
from_le_bytes(b) ==
    IF b = <<>> THEN 0 ELSE Head(b) + 256 * from_le_bytes(Tail(b))

\* two's complement reinterpretation between i16 and its 16 bits
i16_bits(x) == IF x < 0 THEN x + 65536 ELSE x
i16_of_bits(u) == IF u >= 32768 THEN u - 65536 ELSE u

\* a u64 is held as its four 16-bit words, least significant first
U64(n) == <<n % 65536, (n \div 65536) % 65536, 0, 0>>

u64_to_le_bytes(v) ==
    to_le_bytes(v[1], 2) \o to_le_bytes(v[2], 2)
        \o to_le_bytes(v[3], 2) \o to_le_bytes(v[4], 2)

u64_from_le_bytes(b) ==
    <<from_le_bytes(SubSeq(b, 1, 2)), from_le_bytes(SubSeq(b, 3, 4)),
      from_le_bytes(SubSeq(b, 5, 6)), from_le_bytes(SubSeq(b, 7, 8))>>

\* variant: the temperature goes out most significant byte first
to_bytes_be(t) ==
    u64_to_le_bytes(t.timestamp_ms)
        \o <<i16_bits(t.temperature) \div 256, i16_bits(t.temperature) % 256>>
        \o to_le_bytes(t.battery_mv, 2)
        \o to_le_bytes(i16_bits(t.antenna_angle), 2)

\* Telemetry::to_bytes of mock_ocs/telemetry.rs
to_bytes(t) ==
    u64_to_le_bytes(t.timestamp_ms)
        \o to_le_bytes(i16_bits(t.temperature), 2)
        \o to_le_bytes(t.battery_mv, 2)
        \o to_le_bytes(i16_bits(t.antenna_angle), 2)

\* Telemetry::to_bytes of mock_ocs/main.rs
main_to_bytes(t) ==
    u64_to_le_bytes(t.timestamp_ms)
        \o to_le_bytes(i16_bits(t.temperature), 2)
        \o to_le_bytes(t.battery_mv, 2)
        \o to_le_bytes(i16_bits(t.antenna_angle), 2)

\* variant: the temperature is read as an unsigned number
from_bytes_unsigned(data) ==
    IF Len(data) < TELEMETRY_SIZE
    THEN None
    ELSE Some([timestamp_ms  |-> u64_from_le_bytes(SubSeq(data, 1, 8)),
               temperature   |-> from_le_bytes(SubSeq(data, 9, 10)),
               battery_mv    |-> from_le_bytes(SubSeq(data, 11, 12)),
               antenna_angle |-> i16_of_bits(from_le_bytes(SubSeq(data, 13, 14)))])

\* variant: a buffer of exactly 14 bytes is refused too
from_bytes_strict(data) ==
    IF Len(data) <= TELEMETRY_SIZE
    THEN None
    ELSE Some([timestamp_ms  |-> u64_from_le_bytes(SubSeq(data, 1, 8)),
               temperature   |-> i16_of_bits(from_le_bytes(SubSeq(data, 9, 10))),
               battery_mv    |-> from_le_bytes(SubSeq(data, 11, 12)),
               antenna_angle |-> i16_of_bits(from_le_bytes(SubSeq(data, 13, 14)))])

\* Telemetry::from_bytes of mock_ocs/telemetry.rs
ocs_from_bytes(data) ==
    IF Len(data) < TELEMETRY_SIZE
    THEN None
    ELSE Some([timestamp_ms  |-> u64_from_le_bytes(SubSeq(data, 1, 8)),
               temperature   |-> i16_of_bits(from_le_bytes(SubSeq(data, 9, 10))),
               battery_mv    |-> from_le_bytes(SubSeq(data, 11, 12)),
               antenna_angle |-> i16_of_bits(from_le_bytes(SubSeq(data, 13, 14)))])

\* Telemetry::from_bytes of gcs.rs
from_bytes(data) ==
    IF Len(data) < TELEMETRY_SIZE
    THEN None
    ELSE Some([timestamp_ms  |-> u64_from_le_bytes(SubSeq(data, 1, 8)),
               temperature   |-> i16_of_bits(from_le_bytes(SubSeq(data, 9, 10))),
               battery_mv    |-> from_le_bytes(SubSeq(data, 11, 12)),
               antenna_angle |-> i16_of_bits(from_le_bytes(SubSeq(data, 13, 14)))])

\* variant: the upper temperature threshold is inclusive
is_critical_inclusive(t) ==
    t.temperature >= 100 \/ t.temperature < -40 \/ t.battery_mv < 3000

is_critical(t) ==
    t.temperature > 100 \/ t.temperature < -40 \/ t.battery_mv < 3000

\* i16::abs as the optimized build computes it (i16::MIN maps to itself)
abs_i16(x) == IF x = -32768 THEN -32768 ELSE IF x < 0 THEN -x ELSE x

\* variant: only the antenna angle makes an edge case
is_edge_case_antenna(t) == abs_i16(t.antenna_angle) > 45

is_edge_case(t) ==
    \/ t.temperature < -40
    \/ t.temperature > 100
    \/ t.battery_mv < 3000
    \/ abs_i16(t.antenna_angle) > 45

\* i16::abs overflows on i16::MIN: the build with overflow checks panics there
abs_overflows(x) == x = -32768

\* is_edge_case as either build runs it: || stops at the first true operand, so
\* abs is reached only when the three threshold tests are false
is_edge_case_runs(t) ==
    IF ~is_critical(t) /\ abs_overflows(t.antenna_angle)
    THEN {[panicked |-> TRUE, value |-> FALSE],
          [panicked |-> FALSE, value |-> is_edge_case(t)]}
    ELSE {[panicked |-> FALSE, value |-> is_edge_case(t)]}

----------------------------------------------------------------------------
(* Fault (gcs.rs), as <<variant, payload>> *)

HighTemperature(temp) == <<"HighTemperature", temp>>
PacketLoss(count) == <<"PacketLoss", count>>
LossOfContact == <<"LossOfContact", 0>>

----------------------------------------------------------------------------
(* GCSPerformanceMetrics *)

GCSPerformanceMetrics_new(t) ==
    [packets_received        |-> 0,
     valid_packets           |-> 0,
     invalid_packets         |-> 0,
     edge_cases_detected     |-> 0,
     critical_events         |-> 0,
     total_bytes_received    |-> 0,
     decode_latency_us       |-> 0,
     min_decode_us           |-> U128_MAX,
     max_decode_us           |-> 0,
     packets_lost            |-> 0,
     consecutive_lost        |-> 0,
     loss_of_contact_count   |-> 0,
     commands_received       |-> 0,
     commands_dispatched     |-> 0,
     commands_overdue        |-> 0,
     commands_rejected       |-> 0,
     faults_detected         |-> 0,
     fault_response_times_ms |-> <<>>,
     interlock_count         |-> 0,
     start_time              |-> t,
     expected_packet_times   |-> <<>>,
     packet_backlog          |-> 0,
     jitter_us               |-> <<>>,
     last_packet_time        |-> None]

\* the jitter sample pushed when a previous arrival instant exists
jitter_sample(t, last_time) ==
    LET interval_us == t - last_time
        expected_us == EXPECTED_PACKET_INTERVAL_MS * 1000
    IN  IF interval_us > expected_us
        THEN interval_us - expected_us
        ELSE expected_us - interval_us

\* the warning record_packet_received prints about the decode latency of a
\* packet, if it prints one
latency_warning(decode_time_us, is_valid) ==
    IF is_valid /\ decode_time_us > DECODE_LATENCY_THRESHOLD_US
    THEN <<decode_time_us>> ELSE <<>>

\* variant: the invalid branch forgets invalid_packets
record_packet_received_uncounted(m, t, bytes, decode_time_us, is_valid, is_edge, is_crit) ==
    LET m1 == [m EXCEPT
                 !.packets_received = @ + 1,
                 !.total_bytes_received = @ + bytes,
                 !.jitter_us =
                     IF IsSome(m.last_packet_time)
                     THEN Append(@, jitter_sample(t, Unwrap(m.last_packet_time)))
                     ELSE @,
                 !.last_packet_time = Some(t)]
        m2 == IF is_valid
              THEN [m1 EXCEPT
                      !.valid_packets = @ + 1,
                      !.decode_latency_us = @ + decode_time_us,
                      !.min_decode_us = Min(@, decode_time_us),
                      !.max_decode_us = Max(@, decode_time_us)]
              ELSE [m1 EXCEPT
                      !.packets_lost = @ + 1,
                      !.consecutive_lost = @ + 1]
        m3 == IF is_edge THEN [m2 EXCEPT !.edge_cases_detected = @ + 1] ELSE m2
    IN  IF is_crit THEN [m3 EXCEPT !.critical_events = @ + 1] ELSE m3

record_packet_received(m, t, bytes, decode_time_us, is_valid, is_edge, is_crit) ==
    LET m1 == [m EXCEPT
                 !.packets_received = @ + 1,
                 !.total_bytes_received = @ + bytes,
                 !.jitter_us =
                     IF IsSome(m.last_packet_time)
                     THEN Append(@, jitter_sample(t, Unwrap(m.last_packet_time)))
                     ELSE @,
                 !.last_packet_time = Some(t)]
        m2 == IF is_valid
              THEN [m1 EXCEPT
                      !.valid_packets = @ + 1,
                      !.decode_latency_us = @ + decode_time_us,
                      !.min_decode_us = Min(@, decode_time_us),
                      !.max_decode_us = Max(@, decode_time_us)]
              ELSE [m1 EXCEPT
                      !.invalid_packets = @ + 1,
                      !.packets_lost = @ + 1,
                      !.consecutive_lost = @ + 1]
        m3 == IF is_edge THEN [m2 EXCEPT !.edge_cases_detected = @ + 1] ELSE m2
    IN  IF is_crit THEN [m3 EXCEPT !.critical_events = @ + 1] ELSE m3

\* variant: a run of failures counts as one lost packet
record_packet_lost_per_run(m) ==
    LET m1 == [m EXCEPT !.packets_lost = IF m.consecutive_lost = 0 THEN @ + 1 ELSE @,
                        !.consecutive_lost = @ + 1]
    IN  IF m1.consecutive_lost >= LOSS_OF_CONTACT_THRESHOLD
        THEN [m1 EXCEPT !.loss_of_contact_count = @ + 1]
        ELSE m1

record_packet_lost(m) ==
    LET m1 == [m EXCEPT !.packets_lost = @ + 1, !.consecutive_lost = @ + 1]
    IN  IF m1.consecutive_lost >= LOSS_OF_CONTACT_THRESHOLD
        THEN [m1 EXCEPT !.loss_of_contact_count = @ + 1]
        ELSE m1

\* variant: the acknowledgement also clears the loss total
record_packet_ack_clear_lost(m) == [m EXCEPT !.consecutive_lost = 0, !.packets_lost = 0]

\* variant: the acknowledgement leaves the counter alone
record_packet_ack_keep(m) == m

record_packet_ack(m) == [m EXCEPT !.consecutive_lost = 0]

record_command_received(m) == [m EXCEPT !.commands_received = @ + 1]

record_command_dispatched(m, dispatch_time_us, was_overdue) ==
    [m EXCEPT !.commands_dispatched = @ + 1,
              !.commands_overdue = IF was_overdue THEN @ + 1 ELSE @]

record_command_rejected(m) == [m EXCEPT !.commands_rejected = @ + 1]

record_fault(m, fault) == [m EXCEPT !.faults_detected = @ + 1]

record_fault_response(m, response_time_ms) ==
    [m EXCEPT !.fault_response_times_ms = Append(@, response_time_ms)]

record_interlock(m) == [m EXCEPT !.interlock_count = @ + 1]

----------------------------------------------------------------------------
(* GCS::run, one iteration of the loop per step.  Each arm yields the new   *)
(* metrics and the faults it passed to record_fault.                        *)

\* GCS::new, the fields besides socket and metrics
GCS_new ==
    [pending_rerequests |-> <<>>, command_queue |-> <<>>, fault_active |-> FALSE]

\* variant: the fault is raised on every failure at or above the threshold
run_recv_err_level(m) ==
    LET m1 == [m EXCEPT !.packets_lost = @ + 1, !.consecutive_lost = @ + 1,
                        !.loss_of_contact_count = @ + 1]
    IN  IF m1.consecutive_lost >= LOSS_OF_CONTACT_THRESHOLD
        THEN [m |-> [m1 EXCEPT !.faults_detected = @ + 1], raised |-> <<LossOfContact>>, flow |-> "loop"]
        ELSE [m |-> [m1 EXCEPT !.loss_of_contact_count = @ - 1], raised |-> <<>>, flow |-> "loop"]

\* variant: the fault is raised one failure early
run_recv_err_early(m) ==
    LET m1 == record_packet_lost(m)
    IN  IF m1.consecutive_lost = LOSS_OF_CONTACT_THRESHOLD - 1
        THEN [m |-> record_fault(m1, LossOfContact), raised |-> <<LossOfContact>>, flow |-> "loop"]
        ELSE [m |-> m1, raised |-> <<>>, flow |-> "loop"]

\* variant: the error is recorded and then handed to the caller of run
run_recv_err_return(m) ==
    LET m1 == record_packet_lost(m)
    IN  IF m1.consecutive_lost = LOSS_OF_CONTACT_THRESHOLD
        THEN [m |-> record_fault(m1, LossOfContact), raised |-> <<LossOfContact>>, flow |-> "returned"]
        ELSE [m |-> m1, raised |-> <<>>, flow |-> "returned"]

\* Err(e) arm of recv_from
run_recv_err(m) ==
    LET m1 == record_packet_lost(m)
    IN  IF m1.consecutive_lost = LOSS_OF_CONTACT_THRESHOLD
        THEN [m |-> record_fault(m1, LossOfContact), raised |-> <<LossOfContact>>, flow |-> "loop"]
        ELSE [m |-> m1, raised |-> <<>>, flow |-> "loop"]

\* variant: an undecodable datagram raises no fault
run_recv_ok_silent(m, t, data, decode_time) ==
    LET bytes_read == Len(data)
        m0 == record_packet_ack(m)
        decoded == from_bytes(data)
    IN  IF IsSome(decoded)
        THEN LET telemetry == Unwrap(decoded)
                 is_edge == is_edge_case(telemetry)
                 is_crit == is_critical(telemetry)
                 m1 == record_packet_received(m0, t, bytes_read, decode_time,
                                              TRUE, is_edge, is_crit)
             IN  IF is_crit
                 THEN [m |-> record_fault(m1, HighTemperature(telemetry.temperature)),
                       raised |-> <<HighTemperature(telemetry.temperature)>>, flow |-> "loop"]
                 ELSE [m |-> m1, raised |-> <<>>, flow |-> "loop"]
        ELSE [m |-> record_packet_received(m0, t, bytes_read, 0, FALSE, FALSE, FALSE),
              raised |-> <<>>, flow |-> "loop"]

\* variant: a fault is raised for every edge-case record
run_recv_ok_edge(m, t, data, decode_time) ==
    LET bytes_read == Len(data)
        m0 == record_packet_ack(m)
        decoded == from_bytes(data)
    IN  IF IsSome(decoded)
        THEN LET telemetry == Unwrap(decoded)
                 is_edge == is_edge_case(telemetry)
                 is_crit == is_critical(telemetry)
                 m1 == record_packet_received(m0, t, bytes_read, decode_time,
                                              TRUE, is_edge, is_crit)
             IN  IF is_edge
                 THEN [m |-> record_fault(m1, HighTemperature(telemetry.temperature)),
                       raised |-> <<HighTemperature(telemetry.temperature)>>, flow |-> "loop"]
                 ELSE [m |-> m1, raised |-> <<>>, flow |-> "loop"]
        ELSE LET m1 == record_packet_received(m0, t, bytes_read, 0,
                                              FALSE, FALSE, FALSE)
             IN  [m |-> record_fault(m1, PacketLoss(1)), raised |-> <<PacketLoss(1)>>, flow |-> "loop"]

\* Ok((bytes_read, _)) arm: data is buffer[..bytes_read]
run_recv_ok(m, t, data, decode_time) ==
    LET bytes_read == Len(data)
        m0 == record_packet_ack(m)
        decoded == from_bytes(data)
    IN  IF IsSome(decoded)
        THEN LET telemetry == Unwrap(decoded)
                 is_edge == is_edge_case(telemetry)
                 is_crit == is_critical(telemetry)
                 m1 == record_packet_received(m0, t, bytes_read, decode_time,
                                              TRUE, is_edge, is_crit)
             IN  IF is_crit
                 THEN [m |-> record_fault(m1, HighTemperature(telemetry.temperature)),
                       raised |-> <<HighTemperature(telemetry.temperature)>>, flow |-> "loop"]
                 ELSE [m |-> m1, raised |-> <<>>, flow |-> "loop"]
        ELSE LET m1 == record_packet_received(m0, t, bytes_read, 0,
                                              FALSE, FALSE, FALSE)
             IN  [m |-> record_fault(m1, PacketLoss(1)), raised |-> <<PacketLoss(1)>>, flow |-> "loop"]

\* recv_from copies at most the 14 bytes of the receive buffer
recv_into_buffer(datagram) ==
    SubSeq(datagram, 1, Min(Len(datagram), TELEMETRY_SIZE))

----------------------------------------------------------------------------
(* Inputs of the receive loop *)

NormalRecord  == [timestamp_ms |-> U64(1000), temperature |-> 20,  battery_mv |-> 7999, antenna_angle |-> -3]
AntennaRecord == [timestamp_ms |-> U64(1500), temperature |-> 20,  battery_mv |-> 8000, antenna_angle |-> -90]
HotRecord     == [timestamp_ms |-> U64(2000), temperature |-> 125, battery_mv |-> 8000, antenna_angle |-> 0]

SampleRecords == {NormalRecord, AntennaRecord, HotRecord}
TruncatedDatagram == SubSeq(to_bytes(NormalRecord), 1, 5)
Datagrams == {to_bytes(r) : r \in SampleRecords} \cup {TruncatedDatagram}
DecodeTimes == {100}
RecvWaits == {500000}

RecvError(wait) ==
    /\ Len(outcomes) < MaxIter
    /\ gcs_pc = "loop"
    /\ now' = now + wait
    /\ LET r == run_recv_err(metrics)
       IN  /\ metrics' = r.m
           /\ faults' = faults \o r.raised
           /\ raised' = Append(raised, r.raised)
           /\ gcs_pc' = r.flow
    /\ UNCHANGED gcs
    /\ outcomes' = Append(outcomes, "err")
    /\ received' = Append(received, <<>>)
    /\ UNCHANGED <<cmd_vars, ocs_metrics, calls>>
    /\ UNCHANGED <<codec, uplink, ops_vars>>
    /\ UNCHANGED side_vars

RecvDatagram(wait, datagram, decode_time) ==
    /\ Len(outcomes) < MaxIter
    /\ gcs_pc = "loop"
    /\ now' = now + wait
    /\ UNCHANGED gcs
    /\ LET data == recv_into_buffer(datagram)
           r == run_recv_ok(metrics, now', data, decode_time)
       IN  /\ gcs_pc' = r.flow
           /\ metrics' = r.m
           /\ faults' = faults \o r.raised
           /\ raised' = Append(raised, r.raised)
           /\ received' = Append(received, data)
           /\ outcomes' = Append(outcomes,
                                 IF IsSome(from_bytes(data)) THEN "valid" ELSE "invalid")
           /\ report_out' = [report_out EXCEPT
                                !.latency_warnings =
                                    @ \o latency_warning(decode_time, IsSome(from_bytes(data)))]
    /\ UNCHANGED <<cmd_vars, ocs_metrics, calls>>
    /\ UNCHANGED <<codec, uplink, ops_vars, mock>>

NextGCS ==
    \/ \E w \in RecvWaits : RecvError(w)
    \/ \E w \in RecvWaits, d \in Datagrams, dt \in DecodeTimes : RecvDatagram(w, d, dt)

\* the same loop over a few iterations, fed every kind of record the
\* generator makes critical as well
MaxCritIter == 3

ColdRecord    == [timestamp_ms |-> U64(2500), temperature |-> -50, battery_mv |-> 8000, antenna_angle |-> 0]
LowBattRecord == [timestamp_ms |-> U64(3000), temperature |-> 20,  battery_mv |-> 2000, antenna_angle |-> 0]

CriticalRecords == {HotRecord, ColdRecord, LowBattRecord}
CritDatagrams == Datagrams \cup {to_bytes(r) : r \in CriticalRecords}

NextCrit ==
    \/ \E w \in RecvWaits :
           Len(outcomes) < MaxCritIter /\ RecvError(w)
    \/ \E w \in RecvWaits, d \in CritDatagrams, dt \in DecodeTimes :
           Len(outcomes) < MaxCritIter /\ RecvDatagram(w, d, dt)

\* the same loop with decode times that differ from packet to packet
MaxDecodeIter == 3

VariedDecodeTimes == {100, 250, 3001}

NextDecode ==
    \/ \E w \in RecvWaits :
           Len(outcomes) < MaxDecodeIter /\ RecvError(w)
    \/ \E w \in RecvWaits, d \in CritDatagrams, dt \in VariedDecodeTimes :
           Len(outcomes) < MaxDecodeIter /\ RecvDatagram(w, d, dt)

----------------------------------------------------------------------------
(* PerformanceMetrics (mock_ocs/metrics.rs) *)

PerformanceMetrics_new(t) ==
    [packets_sent        |-> 0,
     total_bytes_sent    |-> 0,
     send_latency_us     |-> 0,
     min_latency_us      |-> U128_MAX,
     max_latency_us      |-> 0,
     edge_case_count     |-> 0,
     start_time          |-> t,
     commands_received   |-> 0,
     commands_executed   |-> 0,
     commands_overdue    |-> 0,
     faults_injected     |-> 0,
     safety_alerts       |-> 0,
     recovery_times_ms   |-> <<>>,
     scheduling_drift_us |-> <<>>]

ocs_record_send(m, latency_us, bytes, is_edge) ==
    [m EXCEPT !.packets_sent = @ + 1,
              !.total_bytes_sent = @ + bytes,
              !.send_latency_us = @ + latency_us,
              !.min_latency_us = Min(@, latency_us),
              !.max_latency_us = Max(@, latency_us),
              !.edge_case_count = IF is_edge THEN @ + 1 ELSE @]

ocs_record_command_received(m) == [m EXCEPT !.commands_received = @ + 1]

ocs_record_command_executed(m, was_overdue) ==
    [m EXCEPT !.commands_executed = @ + 1,
              !.commands_overdue = IF was_overdue THEN @ + 1 ELSE @]

ocs_record_fault_injected(m) == [m EXCEPT !.faults_injected = @ + 1]

ocs_record_safety_alert(m) == [m EXCEPT !.safety_alerts = @ + 1]

ocs_record_recovery_time(m, time_ms) ==
    [m EXCEPT !.recovery_times_ms = Append(@, time_ms)]

ocs_record_scheduling_drift(m, drift_us) ==
    [m EXCEPT !.scheduling_drift_us = Append(@, drift_us)]

----------------------------------------------------------------------------
(* CommandExecutor (mock_ocs/command.rs) *)

Command_new(command_id, command_type, priority, payload, t) ==
    [command_id   |-> command_id,
     command_type |-> command_type,
     priority     |-> priority,
     timestamp    |-> t,
     payload      |-> payload]

\* Vec::remove(index), 1-based here
remove_at(s, i) == SubSeq(s, 1, i - 1) \o SubSeq(s, i + 1, Len(s))

\* x placed in front of the first element of lower priority, so behind
\* every element whose key Reverse(priority) is <= its own
insert_by_key(s, x) ==
    LET lower == {i \in 1..Len(s) : s[i].priority < x.priority}
        pos == IF lower = {} THEN Len(s) + 1
               ELSE CHOOSE i \in lower : \A j \in lower : i <= j
    IN  SubSeq(s, 1, pos - 1) \o <<x>> \o SubSeq(s, pos, Len(s))

\* variant: x placed in front of the elements of equal key
insert_before_equal(s, x) ==
    LET lower == {i \in 1..Len(s) : s[i].priority <= x.priority}
        pos == IF lower = {} THEN Len(s) + 1
               ELSE CHOOSE i \in lower : \A j \in lower : i <= j
    IN  SubSeq(s, 1, pos - 1) \o <<x>> \o SubSeq(s, pos, Len(s))

\* variant: a sort that does not keep equal keys in their order
RECURSIVE sort_unstable_by_key(_)
sort_unstable_by_key(s) ==
    IF s = <<>> THEN <<>>
    ELSE insert_before_equal(sort_unstable_by_key(SubSeq(s, 1, Len(s) - 1)), s[Len(s)])

\* slice::sort_by_key(|c| Reverse(c.priority)): stable, descending priority
RECURSIVE sort_by_key(_)
sort_by_key(s) ==
    IF s = <<>> THEN <<>>
    ELSE insert_by_key(sort_by_key(SubSeq(s, 1, Len(s) - 1)), s[Len(s)])

\* variant: a full queue drops nothing
add_command_unbounded(q, command) == sort_by_key(Append(q, command))

add_command(q, command) ==
    LET q1 == IF Len(q) >= MAX_COMMAND_QUEUE_SIZE THEN remove_at(q, 1) ELSE q
    IN  sort_by_key(Append(q1, command))

ExecutionRecord(command, start, exec_time) ==
    [command_id        |-> command.command_id,
     command_type      |-> command.command_type,
     executed_at       |-> start,
     execution_time_us |-> exec_time,
     result            |-> <<"Executed command #", command.command_id>>]

\* variant: the command is taken from the back of the queue
execute_next_back(q, history, t, exec_time) ==
    IF q = <<>>
    THEN [queue |-> q, history |-> history, result |-> None]
    ELSE LET record == ExecutionRecord(q[Len(q)], t, exec_time)
         IN  [queue   |-> remove_at(q, Len(q)),
              history |-> Append(history, record),
              result  |-> Some(record)]

execute_next(q, history, t, exec_time) ==
    IF q = <<>>
    THEN [queue |-> q, history |-> history, result |-> None]
    ELSE LET command == q[1]
             record == ExecutionRecord(command, t, exec_time)
         IN  [queue   |-> remove_at(q, 1),
              history |-> Append(history, record),
              result  |-> Some(record)]

queue_len(q) == Len(q)

----------------------------------------------------------------------------
(* The issuing side: get_next_id, Command::new, add_command; execute_next *)

Priorities == {1, 3, 5}
FillPriorities == {1, 5}
ExecTimes == {0}

CommandIds(q) == {q[i].command_id : i \in 1..Len(q)}
SetMin(S) == CHOOSE x \in S : \A y \in S : x <= y

\* one submission: the id from get_next_id, the command stamped with the clock
Submit(priority) ==
    /\ now' = now + 1
    /\ LET command == Command_new(next_command_id, "CMD", priority, "", now')
       IN  /\ queue' = add_command(queue, command)
           /\ full_adds' =
                  IF Len(queue) >= MAX_COMMAND_QUEUE_SIZE
                  THEN Append(full_adds,
                              [gone   |-> CommandIds(queue) \ CommandIds(queue'),
                               oldest |-> SetMin(CommandIds(queue)),
                               added  |-> command.command_id \in CommandIds(queue'),
                               after  |-> Len(queue')])
                  ELSE full_adds
    /\ next_command_id' = next_command_id + 1
    /\ issued' = Append(issued, priority)
    /\ drain_start' = Len(execution_history) + 1
    /\ UNCHANGED <<execution_history, last_result, executions, dispatches>>
    /\ UNCHANGED <<gcs_vars, ocs_metrics, calls>>
    /\ UNCHANGED <<codec, uplink, ops_vars>>
    /\ UNCHANGED side_vars

ExecuteNext(exec_time) ==
    /\ now' = now + 1
    /\ LET r == execute_next(queue, execution_history, now', exec_time)
       IN  /\ queue' = r.queue
           /\ execution_history' = r.history
           /\ last_result' = r.result
           /\ dispatches' =
                  IF IsSome(r.result)
                  THEN LET record == Unwrap(r.result)
                           command == queue[CHOOSE i \in 1..Len(queue) :
                                               queue[i].command_id = record.command_id]
                       IN  Append(dispatches, [issued_at     |-> command.timestamp,
                                               dispatched_at |-> now',
                                               record        |-> record])
                  ELSE dispatches
    /\ executions' = executions + 1
    /\ UNCHANGED <<next_command_id, issued, drain_start, full_adds>>
    /\ UNCHANGED <<gcs_vars, ocs_metrics, calls>>
    /\ UNCHANGED <<codec, uplink, ops_vars>>
    /\ UNCHANGED side_vars

\* ordering: few commands of any priority, drained freely
NextQueue ==
    \/ /\ next_command_id <= MaxCommands
       /\ \E p \in Priorities : Submit(p)
    \/ /\ executions < MaxExec
       /\ \E e \in ExecTimes : ExecuteNext(e)

\* capacity: enough commands to fill the queue, a few of them urgent
NumUrgent == Cardinality({i \in 1..Len(issued) : issued[i] > SetMin(FillPriorities)})

NextFill ==
    \/ /\ next_command_id <= MaxFill
       /\ \E p \in FillPriorities :
              /\ (p > SetMin(FillPriorities) => NumUrgent < MaxUrgent)
              /\ Submit(p)
    \/ /\ executions < MaxFillExec
       /\ \E e \in ExecTimes : ExecuteNext(e)

----------------------------------------------------------------------------
(* The recording operations of both metrics objects, called in any order *)

ReceivedArgs ==
    {[bytes |-> 14, decode |-> 100, valid |-> TRUE,  edge |-> FALSE, crit |-> FALSE],
     [bytes |-> 14, decode |-> 100, valid |-> TRUE,  edge |-> TRUE,  crit |-> TRUE],
     [bytes |-> 5,  decode |-> 0,   valid |-> FALSE, edge |-> FALSE, crit |-> FALSE]}
ResponseTimes == {150}
DispatchTimes == {2500}
SendLatencies == {40}
RecoveryTimes == {110}
Drifts == {-20}

Called == calls < MaxOps /\ calls' = calls + 1

GcsCall(m) ==
    /\ Called
    /\ metrics' = m
    /\ UNCHANGED <<faults, outcomes, raised, received, gcs, gcs_pc, now, cmd_vars, ocs_metrics>>
    /\ UNCHANGED <<codec, uplink, ops_vars>>
    /\ UNCHANGED side_vars

OcsCall(m) ==
    /\ Called
    /\ ocs_metrics' = m
    /\ UNCHANGED <<gcs_vars, now, cmd_vars>>
    /\ UNCHANGED <<codec, uplink, ops_vars>>
    /\ UNCHANGED side_vars

RecordPacketReceived(wait, a) ==
    /\ Called
    /\ now' = now + wait
    /\ metrics' = record_packet_received(metrics, now', a.bytes, a.decode,
                                         a.valid, a.edge, a.crit)
    /\ report_out' = [report_out EXCEPT
                         !.latency_warnings = @ \o latency_warning(a.decode, a.valid)]
    /\ UNCHANGED <<faults, outcomes, raised, received, gcs, gcs_pc, cmd_vars, ocs_metrics>>
    /\ UNCHANGED <<codec, uplink, ops_vars, mock>>

RecordPacketLost == GcsCall(record_packet_lost(metrics))
RecordPacketAck == GcsCall(record_packet_ack(metrics))
RecordCommandReceived == GcsCall(record_command_received(metrics))
RecordCommandDispatched(t, overdue) ==
    GcsCall(record_command_dispatched(metrics, t, overdue))
RecordCommandRejected == GcsCall(record_command_rejected(metrics))
RecordFaultResponse(ms) == GcsCall(record_fault_response(metrics, ms))
RecordInterlock == GcsCall(record_interlock(metrics))

RecordFault(fault) ==
    /\ Called
    /\ metrics' = record_fault(metrics, fault)
    /\ faults' = Append(faults, fault)
    /\ UNCHANGED <<outcomes, raised, received, gcs, gcs_pc, now, cmd_vars, ocs_metrics>>
    /\ UNCHANGED <<codec, uplink, ops_vars>>
    /\ UNCHANGED side_vars

OcsRecordSend(latency, bytes, edge) ==
    OcsCall(ocs_record_send(ocs_metrics, latency, bytes, edge))
OcsRecordCommandReceived == OcsCall(ocs_record_command_received(ocs_metrics))
OcsRecordCommandExecuted(overdue) ==
    OcsCall(ocs_record_command_executed(ocs_metrics, overdue))
OcsRecordFaultInjected == OcsCall(ocs_record_fault_injected(ocs_metrics))
OcsRecordSafetyAlert == OcsCall(ocs_record_safety_alert(ocs_metrics))
OcsRecordRecoveryTime(ms) == OcsCall(ocs_record_recovery_time(ocs_metrics, ms))
OcsRecordSchedulingDrift(us) == OcsCall(ocs_record_scheduling_drift(ocs_metrics, us))

NextRecord ==
    \/ \E w \in RecvWaits, a \in ReceivedArgs : RecordPacketReceived(w, a)
    \/ RecordPacketLost
    \/ RecordPacketAck
    \/ RecordCommandReceived
    \/ \E t \in DispatchTimes, o \in BOOLEAN : RecordCommandDispatched(t, o)
    \/ RecordCommandRejected
    \/ RecordFault(LossOfContact)
    \/ \E ms \in ResponseTimes : RecordFaultResponse(ms)
    \/ RecordInterlock
    \/ \E l \in SendLatencies, e \in BOOLEAN : OcsRecordSend(l, TELEMETRY_SIZE, e)
    \/ OcsRecordCommandReceived
    \/ \E o \in BOOLEAN : OcsRecordCommandExecuted(o)
    \/ OcsRecordFaultInjected
    \/ OcsRecordSafetyAlert
    \/ \E ms \in RecoveryTimes : OcsRecordRecoveryTime(ms)
    \/ \E us \in Drifts : OcsRecordSchedulingDrift(us)

----------------------------------------------------------------------------
(* The reports of both metrics objects.  A report only prints; report_out   *)
(* holds the figures of the last report of each object.                      *)

RECURSIVE sum(_)
\* Iterator::sum over a Vec
sum(s) == IF s = <<>> THEN 0 ELSE Head(s) + sum(Tail(s))

\* integer division of Rust: the quotient is truncated towards zero
int_div(a, b) ==
    IF a >= 0 THEN a \div b ELSE -((-a) \div b)

\* i128::abs
i128_abs(a) == IF a < 0 THEN -a ELSE a

\* `packets as f64 / elapsed.as_secs_f64()`, printed with two decimals: the
\* division of f64 does not trap, a zero divisor gives inf, or NaN for 0.0 / 0.0
f64_div(packets, elapsed_us) ==
    IF elapsed_us = 0
    THEN [class |-> IF packets = 0 THEN "NaN" ELSE "inf",
          hundredths |-> 0, zero_divisor |-> TRUE]
    ELSE [class |-> "finite",
          hundredths |-> (packets * 100000000) \div elapsed_us,
          zero_divisor |-> FALSE]

\* GCSPerformanceMetrics::report at the instant t
report(m, t) ==
    LET elapsed == t - m.start_time
    IN  [avg_decode |->
             IF m.valid_packets > 0
             THEN int_div(m.decode_latency_us, m.valid_packets) ELSE 0,
         avg_jitter |->
             IF m.jitter_us # <<>>
             THEN int_div(sum(m.jitter_us), Len(m.jitter_us)) ELSE 0,
         avg_fault_response |->
             IF m.fault_response_times_ms # <<>>
             THEN int_div(sum(m.fault_response_times_ms),
                          Len(m.fault_response_times_ms))
             ELSE 0,
         packets_per_second |-> f64_div(m.packets_received, elapsed),
         realtime_status |->
             IF m.max_decode_us < DECODE_LATENCY_THRESHOLD_US
             THEN "All real-time constraints MET"
             ELSE "!!! DECODE LATENCY EXCEEDS 3ms !!!"]

\* PerformanceMetrics::report (mock_ocs/metrics.rs) at the instant t
ocs_report(m, t) ==
    LET elapsed == t - m.start_time
        avg_drift == IF m.scheduling_drift_us # <<>>
                     THEN int_div(sum(m.scheduling_drift_us),
                                  Len(m.scheduling_drift_us))
                     ELSE 0
    IN  [avg_latency |->
             IF m.packets_sent > 0
             THEN int_div(m.send_latency_us, m.packets_sent) ELSE 0,
         avg_drift |-> avg_drift,
         avg_recovery |->
             IF m.recovery_times_ms # <<>>
             THEN int_div(sum(m.recovery_times_ms), Len(m.recovery_times_ms))
             ELSE 0,
         packets_per_second |-> f64_div(m.packets_sent, elapsed),
         drift_status |->
             IF i128_abs(avg_drift) < 1000
             THEN "Within acceptable bounds"
             ELSE "EXCESSIVE DRIFT DETECTED"]

\* time passed between the previous operation and the report; Instant is
\* monotonic, two readings of it may be equal
ReportWaits == {0, 500000}

GcsReport(wait) ==
    /\ Called
    /\ now' = now + wait
    /\ report_out' = [report_out EXCEPT !.gcs = Some(report(metrics, now'))]
    /\ UNCHANGED <<gcs_vars, cmd_vars, ocs_metrics, mock>>
    /\ UNCHANGED <<codec, uplink, ops_vars>>

OcsReport(wait) ==
    /\ Called
    /\ now' = now + wait
    /\ report_out' = [report_out EXCEPT !.ocs = Some(ocs_report(ocs_metrics, now'))]
    /\ UNCHANGED <<gcs_vars, cmd_vars, ocs_metrics, mock>>
    /\ UNCHANGED <<codec, uplink, ops_vars>>

\* recordings that feed the figures of a report, and the reports
\* packets decoded in exactly the threshold, and in more
LatencyArgs ==
    {[bytes |-> 14, decode |-> d, valid |-> TRUE, edge |-> FALSE, crit |-> FALSE] :
        d \in {DECODE_LATENCY_THRESHOLD_US, DECODE_LATENCY_THRESHOLD_US + 1}}

NextReport ==
    \/ \E w \in RecvWaits, a \in ReceivedArgs \cup LatencyArgs : RecordPacketReceived(w, a)
    \/ \E ms \in ResponseTimes : RecordFaultResponse(ms)
    \/ \E l \in SendLatencies, e \in BOOLEAN : OcsRecordSend(l, TELEMETRY_SIZE, e)
    \/ \E ms \in RecoveryTimes : OcsRecordRecoveryTime(ms)
    \/ \E us \in Drifts : OcsRecordSchedulingDrift(us)
    \/ \E w \in ReportWaits : GcsReport(w)
    \/ \E w \in ReportWaits : OcsReport(w)

----------------------------------------------------------------------------
(* OperationalState behind Arc<Mutex<..>> and the CommandReceiver threads    *)
(* constructed over it.  A lock() blocks while another thread holds the      *)
(* Mutex; a guard is released by drop or at the end of its scope.            *)

MaxHandled == 2

Receivers == {1, 2}

OperationalState_new(t) ==
    [mode                       |-> "normal",
     fault_mode_active          |-> FALSE,
     consecutive_missed_thermal |-> 0,
     safety_alert_active        |-> FALSE,
     last_fault_injection       |-> t]

\* pc: the statement the thread is at; seen: the state as this thread left it
\* when it last released the Mutex; handled: datagrams taken from the socket;
\* last_cmd: the text of the last of them
Receiver_idle ==
    [pc |-> "recv", fault_type |-> "", mode_arg |-> "", seen |-> None,
     response |-> None, handled |-> 0, last_cmd |-> <<>>]

\* a command datagram as text: a sequence of words and runs of whitespace
Blank == " "
CommandTexts ==
    { <<"INJECT_FAULT", Blank, "temp">>,
      <<"inject_fault">>,
      <<"SET_MODE", Blank, "safe">>,
      <<"Set_Mode">>,
      <<Blank, "GET_STATUS", Blank>>,
      <<"ping">>,
      <<"REBOOT", Blank, "now">>,
      <<"SHUTDOWN">>,
      <<Blank, Blank>>,
      <<>> }

\* str::trim followed by split_whitespace
split_whitespace(text) == SelectSeq(text, LAMBDA w : w # Blank)

\* variant: the word is compared as it was sent
to_uppercase_exact(w) == w

\* str::to_uppercase on the words that occur
to_uppercase(w) ==
    CASE w \in {"INJECT_FAULT", "inject_fault"} -> "INJECT_FAULT"
      [] w \in {"SET_MODE", "Set_Mode"}         -> "SET_MODE"
      [] w = "GET_STATUS"                       -> "GET_STATUS"
      [] w \in {"PING", "ping"}                 -> "PING"
      [] w = "SHUTDOWN"                         -> "SHUTDOWN"
      [] w = "REBOOT"                           -> "REBOOT"
      [] OTHER                                  -> w

\* parts.get(1).map(|s| *s).unwrap_or(default)
get_or(parts, default) == IF Len(parts) >= 2 THEN parts[2] ELSE default

fault_msg(fault_type) ==
    CASE fault_type = "temp"    -> <<"High temperature fault injected">>
      [] fault_type = "battery" -> <<"Low battery fault injected">>
      [] fault_type = "antenna" -> <<"Antenna misalignment fault injected">>
      [] fault_type = "random"  -> <<"Random fault injected">>
      [] OTHER -> <<"Fault type '", fault_type, "' not recognized, injecting random">>

\* recv_from returned a datagram; process_command up to its first lock()
ProcessCommand(r, cmd_str) ==
    /\ receiver[r].pc = "recv"
    /\ receiver[r].handled < MaxHandled
    /\ LET parts == split_whitespace(cmd_str)
           me == [receiver[r] EXCEPT !.handled = @ + 1, !.last_cmd = cmd_str]
           verb == to_uppercase(parts[1])
       IN  IF parts = <<>>
           THEN receiver' = [receiver EXCEPT ![r] = [me EXCEPT !.response = None]]
           ELSE CASE verb = "INJECT_FAULT" ->
                       receiver' = [receiver EXCEPT ![r] =
                           [me EXCEPT !.pc = "inject_fault",
                                      !.fault_type = get_or(parts, "random")]]
                  [] verb = "SET_MODE" ->
                       receiver' = [receiver EXCEPT ![r] =
                           [me EXCEPT !.pc = "set_mode",
                                      !.mode_arg = get_or(parts, "normal")]]
                  [] verb = "GET_STATUS" ->
                       receiver' = [receiver EXCEPT ![r] = [me EXCEPT !.pc = "get_status"]]
                  [] verb = "SHUTDOWN" ->
                       \* std::process::exit(0) ends every thread of the process
                       receiver' = [q \in Receivers |->
                                       [(IF q = r THEN me ELSE receiver[q])
                                            EXCEPT !.pc = "exited"]]
                  [] verb = "PING" ->
                       receiver' = [receiver EXCEPT ![r] =
                           [me EXCEPT !.response = Some(<<"[OCS] PONG">>)]]
                  [] OTHER ->
                       receiver' = [receiver EXCEPT ![r] =
                           [me EXCEPT !.response =
                               Some(<<"[OCS] Unknown command: ", parts[1]>>)]]
    /\ UNCHANGED <<state, mutex>>
    /\ UNCHANGED <<gcs_vars, now, cmd_vars, ocs_metrics, calls, codec, uplink>>
    /\ UNCHANGED side_vars

\* handle_inject_fault, lock / fault_mode_active = true / drop(state)
InjectSet(r) ==
    /\ receiver[r].pc = "inject_fault"
    /\ mutex = None
    /\ state' = [state EXCEPT !.fault_mode_active = TRUE]
    /\ mutex' = None
    /\ receiver' = [receiver EXCEPT ![r] =
                        [@ EXCEPT !.pc = "inject_sleep", !.seen = Some(state')]]
    /\ UNCHANGED <<gcs_vars, now, cmd_vars, ocs_metrics, calls, codec, uplink>>
    /\ UNCHANGED side_vars

\* handle_inject_fault after the 100 ms sleep: lock / fault_mode_active = false
InjectClear(r) ==
    /\ receiver[r].pc = "inject_sleep"
    /\ mutex = None
    /\ mutex' = Some(r)
    /\ state' = [state EXCEPT !.fault_mode_active = FALSE]
    /\ receiver' = [receiver EXCEPT ![r] = [@ EXCEPT !.pc = "inject_recover"]]
    /\ UNCHANGED <<gcs_vars, now, cmd_vars, ocs_metrics, calls, codec, uplink>>
    /\ UNCHANGED side_vars

\* handle_inject_fault after the 10 ms sleep: the guard goes out of scope
InjectReturn(r, recovery_time) ==
    /\ receiver[r].pc = "inject_recover"
    /\ mutex = Some(r)
    /\ mutex' = None
    /\ receiver' = [receiver EXCEPT ![r] =
           [@ EXCEPT !.pc = "recv",
                     !.seen = Some(state),
                     !.response = Some(<<"[OCS] ">> \o fault_msg(receiver[r].fault_type)
                                       \o <<" - Recovery time: ", recovery_time, "ms">>)]]
    /\ UNCHANGED state
    /\ UNCHANGED <<gcs_vars, now, cmd_vars, ocs_metrics, calls, codec, uplink>>
    /\ UNCHANGED side_vars

\* variant: the mode is left alone while a fault is active
handle_set_mode_refusing(st, mode) ==
    IF st.fault_mode_active THEN st ELSE [st EXCEPT !.mode = mode]

handle_set_mode(st, mode) == [st EXCEPT !.mode = mode]

SetMode(r) ==
    /\ receiver[r].pc = "set_mode"
    /\ mutex = None
    /\ state' = handle_set_mode(state, receiver[r].mode_arg)
    /\ mutex' = None
    /\ receiver' = [receiver EXCEPT ![r] =
           [@ EXCEPT !.pc = "recv",
                     !.seen = Some(state'),
                     !.response = Some(<<"[OCS] Mode set to: ", receiver[r].mode_arg>>)]]
    /\ UNCHANGED <<gcs_vars, now, cmd_vars, ocs_metrics, calls, codec, uplink>>
    /\ UNCHANGED side_vars

handle_get_status(st) ==
    <<"[OCS] Status - Mode: ", st.mode, ", Fault Active: ", st.fault_mode_active,
      ", Safety Alert: ", st.safety_alert_active>>

GetStatus(r) ==
    /\ receiver[r].pc = "get_status"
    /\ mutex = None
    /\ mutex' = None
    /\ receiver' = [receiver EXCEPT ![r] =
           [@ EXCEPT !.pc = "recv",
                     !.seen = Some(state),
                     !.response = Some(handle_get_status(state))]]
    /\ UNCHANGED state
    /\ UNCHANGED <<gcs_vars, now, cmd_vars, ocs_metrics, calls, codec, uplink>>
    /\ UNCHANGED side_vars

RecoveryReadings == {10}

NextReceiver ==
    \/ \E r \in Receivers, c \in CommandTexts : ProcessCommand(r, c)
    \/ \E r \in Receivers : InjectSet(r)
    \/ \E r \in Receivers : InjectClear(r)
    \/ \E r \in Receivers, ms \in RecoveryReadings : InjectReturn(r, ms)
    \/ \E r \in Receivers : SetMode(r)
    \/ \E r \in Receivers : GetStatus(r)

----------------------------------------------------------------------------
(* One record on its way from the spacecraft to the ground: built, encoded   *)
(* by both encoders, carried as a datagram that may arrive cut short or      *)
(* with bytes appended, decoded by both decoders, classified by the GCS.     *)

MaxExtra == 2       \* bytes a datagram may carry beyond TELEMETRY_SIZE

\* field values: the ends of each type's range and both sides of each threshold
Timestamps ==
    { <<0, 0, 0, 0>>, <<65535, 65535, 65535, 65535>>, <<0, 0, 0, 32768>>,
      <<513, 1027, 1541, 2055>> }
Temperatures == {-32768, -41, -40, -1, 0, 20, 100, 101, 32767}
Batteries == {0, 2999, 3000, 8000, 65535}
Angles == {-32768, -46, -45, 0, 45, 46, 32767}
Padding(k) == [i \in 1..k |-> 170]

Codec_idle ==
    [stage |-> "idle", record |-> None, bytes |-> <<>>, bytes_main |-> <<>>,
     buffer |-> <<>>, decoded |-> None, decoded_ocs |-> None,
     critical |-> FALSE, edge |-> [panicked |-> FALSE, value |-> FALSE],
     origin |-> None]

Generate(ts, temp, batt, angle) ==
    /\ codec.stage = "idle"
    /\ codec' = [codec EXCEPT
                    !.stage = "generated",
                    !.record = Some([timestamp_ms |-> ts, temperature |-> temp,
                                     battery_mv |-> batt, antenna_angle |-> angle])]
    /\ UNCHANGED <<gcs_vars, now, cmd_vars, ocs_metrics, calls, uplink, ops_vars>>
    /\ UNCHANGED side_vars

Encode ==
    /\ codec.stage = "generated"
    /\ codec' = [codec EXCEPT
                    !.stage = "encoded",
                    !.bytes = to_bytes(Unwrap(codec.record)),
                    !.bytes_main = main_to_bytes(Unwrap(codec.record))]
    /\ UNCHANGED <<gcs_vars, now, cmd_vars, ocs_metrics, calls, uplink, ops_vars>>
    /\ UNCHANGED side_vars

\* the receiver's slice holds the first n bytes of the datagram plus padding
Deliver(n) ==
    /\ codec.stage = "encoded"
    /\ codec' = [codec EXCEPT
                    !.stage = "delivered",
                    !.buffer = SubSeq(codec.bytes \o Padding(MaxExtra), 1, n)]
    /\ UNCHANGED <<gcs_vars, now, cmd_vars, ocs_metrics, calls, uplink, ops_vars>>
    /\ UNCHANGED side_vars

Decode ==
    /\ codec.stage = "delivered"
    /\ codec' = [codec EXCEPT
                    !.stage = "decoded",
                    !.decoded = from_bytes(codec.buffer),
                    !.decoded_ocs = ocs_from_bytes(codec.buffer)]
    /\ UNCHANGED <<gcs_vars, now, cmd_vars, ocs_metrics, calls, uplink, ops_vars>>
    /\ UNCHANGED side_vars

Classify ==
    /\ codec.stage = "decoded"
    /\ IsSome(codec.decoded)
    /\ \E run \in is_edge_case_runs(Unwrap(codec.decoded)) :
           codec' = [codec EXCEPT
                        !.stage = "classified",
                        !.critical = is_critical(Unwrap(codec.decoded)),
                        !.edge = run]
    /\ UNCHANGED <<gcs_vars, now, cmd_vars, ocs_metrics, calls, uplink, ops_vars>>
    /\ UNCHANGED side_vars

\* TelemetryGenerator::new (mock_ocs/telemetry.rs), without the rng
TelemetryGenerator_new == [base_temperature |-> 20, base_battery |-> 8000]

\* u16::saturating_sub
u16_saturating_sub(a, b) == IF a >= b THEN a - b ELSE 0

\* TelemetryGenerator::generate_normal; the three draws of rng.gen_range are
\* the last three arguments
generate_normal(self, timestamp_ms, temp_variation, battery_drain, antenna_variation) ==
    [timestamp_ms  |-> timestamp_ms,
     temperature   |-> self.base_temperature + temp_variation,
     battery_mv    |-> u16_saturating_sub(self.base_battery, battery_drain),
     antenna_angle |-> antenna_variation]

\* the record of edge case kind k
edge_case_record(self, timestamp_ms, k) ==
    [timestamp_ms  |-> timestamp_ms,
     temperature   |-> CASE k = 0 -> -50
                         [] k = 1 -> 125
                         [] OTHER -> self.base_temperature,
     battery_mv    |-> CASE k = 2 -> 2000
                         [] k = 3 -> 0
                         [] OTHER -> self.base_battery,
     antenna_angle |-> CASE k = 4 -> -90
                         [] k \in {0, 1, 2, 3} -> 0
                         [] OTHER -> 90]

\* variant: the kind is matched on case_type itself
ocs_generate_edge_case_unreduced(self, timestamp_ms, case_type) ==
    edge_case_record(self, timestamp_ms, case_type)

\* TelemetryGenerator::generate_edge_case
ocs_generate_edge_case(self, timestamp_ms, case_type) ==
    edge_case_record(self, timestamp_ms, case_type % 6)

TempVariationRange == -10..10
BatteryDrainRange == 1..5
AntennaVariationRange == -5..5
CaseTypes == 0..255
GenTimestamps == {U64(1000)}

GenerateNormal(ts, tv, bd, av) ==
    /\ codec.stage = "idle"
    /\ codec' = [codec EXCEPT
                    !.stage = "generated",
                    !.record = Some(generate_normal(TelemetryGenerator_new, ts, tv, bd, av)),
                    !.origin = Some([kind |-> "normal", case_type |-> 0])]
    /\ UNCHANGED <<gcs_vars, now, cmd_vars, ocs_metrics, calls, uplink, ops_vars>>
    /\ UNCHANGED side_vars

GenerateEdgeCase(ts, case_type) ==
    /\ codec.stage = "idle"
    /\ codec' = [codec EXCEPT
                    !.stage = "generated",
                    !.record = Some(ocs_generate_edge_case(TelemetryGenerator_new, ts,
                                                           case_type)),
                    !.origin = Some([kind |-> "edge", case_type |-> case_type])]
    /\ UNCHANGED <<gcs_vars, now, cmd_vars, ocs_metrics, calls, uplink, ops_vars>>
    /\ UNCHANGED side_vars

\* a generated record, sent whole and classified on the ground
NextGen ==
    \/ \E ts \in GenTimestamps, tv \in TempVariationRange, bd \in BatteryDrainRange,
          av \in AntennaVariationRange : GenerateNormal(ts, tv, bd, av)
    \/ \E ts \in GenTimestamps, ct \in CaseTypes : GenerateEdgeCase(ts, ct)
    \/ Encode
    \/ Deliver(TELEMETRY_SIZE)
    \/ Decode
    \/ Classify

NextCodec ==
    \/ \E ts \in Timestamps, temp \in Temperatures, batt \in Batteries, angle \in Angles :
           Generate(ts, temp, batt, angle)
    \/ Encode
    \/ \E n \in 0..(TELEMETRY_SIZE + MaxExtra) : Deliver(n)
    \/ Decode
    \/ Classify

----------------------------------------------------------------------------
(* The ground-side Command (gcs.rs) and its deadline.  Instants and          *)
(* durations are counted in milliseconds.                                    *)

MaxChecks == 3      \* is_overdue calls on one command

gcs_Command_new(command_id, command_type, priority, max_delay, t) ==
    [command_id   |-> command_id,
     command_type |-> command_type,
     priority     |-> priority,
     timestamp    |-> t,
     deadline     |-> max_delay]

\* Instant::elapsed at instant t
elapsed(timestamp, t) == t - timestamp

\* variant: a command is overdue as soon as its deadline is reached
is_overdue_inclusive(command, t) == elapsed(command.timestamp, t) >= command.deadline

is_overdue(command, t) == elapsed(command.timestamp, t) > command.deadline

\* zero, short, and one hour
MaxDelays == {0, 2, 3, 3600000}
Delays == {0, 1, 2, 3600000}

Uplink_idle == [stage |-> "idle", command |-> None, checks |-> <<>>]

NewCommand(max_delay) ==
    /\ uplink.stage = "idle"
    /\ uplink' = [uplink EXCEPT
                     !.stage = "issued",
                     !.command = Some(gcs_Command_new(1, "CMD", 5, max_delay, now))]
    /\ UNCHANGED <<gcs_vars, now, cmd_vars, ocs_metrics, calls, codec, ops_vars>>
    /\ UNCHANGED side_vars

\* some time passes, then is_overdue is called
CheckOverdue(delay) ==
    /\ uplink.stage = "issued"
    /\ Len(uplink.checks) < MaxChecks
    /\ now' = now + delay
    /\ uplink' = [uplink EXCEPT
                     !.checks = Append(@, [at |-> now',
                                           overdue |-> is_overdue(Unwrap(uplink.command), now')])]
    /\ UNCHANGED <<gcs_vars, cmd_vars, ocs_metrics, calls, codec, ops_vars>>
    /\ UNCHANGED side_vars

NextUplink ==
    \/ \E d \in MaxDelays : NewCommand(d)
    \/ \E d \in Delays : CheckOverdue(d)

----------------------------------------------------------------------------
(* MockOCS (mock_ocs/main.rs): its own PerformanceMetrics and the four run   *)
(* modes.  One action per turn of a mode's loop.                             *)

MaxCount == 3          \* largest packet count given on the command line
MaxContinuous == 51    \* turns of the continuous loop, sends failing or not
MaxTurns == 301        \* turns of the continuous loop with every send succeeding:
                       \* the counter values 0..300

main_PerformanceMetrics_new(t) ==
    [packets_sent     |-> 0,
     total_bytes_sent |-> 0,
     send_latency_us  |-> 0,
     min_latency_us   |-> U128_MAX,
     max_latency_us   |-> 0,
     edge_case_count  |-> 0,
     start_time       |-> t]

main_record_send(m, latency_us, bytes, is_edge) ==
    [m EXCEPT !.packets_sent = @ + 1,
              !.total_bytes_sent = @ + bytes,
              !.send_latency_us = @ + latency_us,
              !.min_latency_us = Min(@, latency_us),
              !.max_latency_us = Max(@, latency_us),
              !.edge_case_count = IF is_edge THEN @ + 1 ELSE @]

\* PerformanceMetrics::report of main.rs at the instant t
main_report(m, t) ==
    [avg_latency |->
         IF m.packets_sent > 0
         THEN int_div(m.send_latency_us, m.packets_sent) ELSE 0,
     packets_per_second |-> f64_div(m.packets_sent, t - m.start_time)]

\* the fields of MockOCS that the run modes read or write
MockOCS_self(t) ==
    [metrics          |-> main_PerformanceMetrics_new(t),
     base_temperature |-> 20,
     base_battery     |-> 8000]

\* u16::saturating_sub
saturating_sub(a, b) == IF a >= b THEN a - b ELSE 0

\* the three draws of rng.gen_range are the last three arguments
generate_normal_telemetry(self, timestamp_ms, temp_var, drain, antenna_var) ==
    [timestamp_ms  |-> timestamp_ms,
     temperature   |-> self.base_temperature + temp_var,
     battery_mv    |-> saturating_sub(self.base_battery, drain),
     antenna_angle |-> antenna_var]

\* MockOCS::generate_edge_case: the record made, and self after the call
generate_edge_case(self, timestamp_ms, case_type) ==
    [self |-> [self EXCEPT !.metrics = main_record_send(@, 0, 0, TRUE)],
     telemetry |->
         [timestamp_ms  |-> timestamp_ms,
          temperature   |-> CASE case_type % 6 = 0 -> -50
                              [] case_type % 6 = 1 -> 125
                              [] OTHER -> self.base_temperature,
          battery_mv    |-> CASE case_type % 6 = 2 -> 2000
                              [] case_type % 6 = 3 -> 0
                              [] OTHER -> self.base_battery,
          antenna_angle |-> CASE case_type % 6 = 4 -> -90
                              [] case_type % 6 \in {0, 1, 2, 3} -> 0
                              [] OTHER -> 90]]

\* `x as u8`
as_u8(x) == x % 256

\* pc: "main" before a mode is entered, then the mode whose loop runs, then
\* "returned"; i: the loop variable (counter in continuous mode);
\* sends_ok, edge_sends_ok: how often socket.send returned Ok, and how often
\* it did so for an edge case record; edge_kinds: the kinds (case_type % 6) of
\* the edge case records generated
MockOCS_new(t) ==
    [self |-> MockOCS_self(t), pc |-> "main", count |-> 0, i |-> 0,
     start_time |-> t, sends_ok |-> 0, edge_sends_ok |-> 0, edge_kinds |-> {}]

\* the last report of each metrics object, and the latency warnings printed
Report_none == [gcs |-> None, ocs |-> None, main |-> None, latency_warnings |-> <<>>]

Modes == {"normal", "edge", "mixed", "continuous"}
Counts == 0..MaxCount
TempVariations == {-10, 10}
BatteryDrains == {1, 5}
AntennaVariations == {-5, 5}
SendResults == {"Ok", "Err"}
INTERVAL_US == 1000000

MockFrame ==
    /\ UNCHANGED <<gcs_vars, cmd_vars, ocs_metrics, calls>>
    /\ UNCHANGED <<codec, uplink, ops_vars>>

\* main: the mode and the count of the command line
EnterMode(mode, count) ==
    /\ mock.pc = "main"
    /\ mock' = [mock EXCEPT !.pc = mode, !.count = count, !.i = 0,
                            !.start_time = now]
    /\ UNCHANGED <<now, report_out>>
    /\ MockFrame

\* from socket.send to the end of a turn: the packet is sent, a successful
\* send is recorded, the loop variable advances, the thread sleeps
SendAndSleep(self, telemetry, is_edge, kinds, result, latency, sleeps) ==
    /\ mock' = [mock EXCEPT
                   !.self = IF result = "Ok"
                            THEN [self EXCEPT !.metrics =
                                     main_record_send(@, latency,
                                                      Len(main_to_bytes(telemetry)),
                                                      is_edge)]
                            ELSE self,
                   !.i = @ + 1,
                   !.sends_ok = IF result = "Ok" THEN @ + 1 ELSE @,
                   !.edge_sends_ok = IF result = "Ok" /\ is_edge THEN @ + 1 ELSE @,
                   !.edge_kinds = @ \cup kinds]
    /\ now' = IF sleeps THEN now + INTERVAL_US ELSE now
    /\ UNCHANGED report_out
    /\ MockFrame

timestamp_ms_at(t) == U64((t - mock.start_time) \div 1000)

RunNormalTurn(tv, bd, av, result, latency) ==
    /\ mock.pc = "normal"
    /\ mock.i < mock.count
    /\ SendAndSleep(mock.self,
                    generate_normal_telemetry(mock.self, timestamp_ms_at(now),
                                              tv, bd, av),
                    FALSE, {}, result, latency, mock.i < mock.count - 1)

RunEdgeCaseTurn(result, latency) ==
    /\ mock.pc = "edge"
    /\ mock.i < mock.count
    /\ LET g == generate_edge_case(mock.self, timestamp_ms_at(now), as_u8(mock.i))
       IN  SendAndSleep(g.self, g.telemetry, TRUE, {as_u8(mock.i) % 6}, result, latency,
                        mock.i < mock.count - 1)

RunMixedTurn(is_edge, tv, bd, av, result, latency) ==
    /\ mock.pc = "mixed"
    /\ mock.i < mock.count
    /\ LET g == generate_edge_case(mock.self, timestamp_ms_at(now), as_u8(mock.i))
       IN  IF is_edge
           THEN SendAndSleep(g.self, g.telemetry, TRUE, {as_u8(mock.i) % 6}, result,
                             latency, mock.i < mock.count - 1)
           ELSE SendAndSleep(mock.self,
                             generate_normal_telemetry(mock.self,
                                                       timestamp_ms_at(now),
                                                       tv, bd, av),
                             FALSE, {}, result, latency, mock.i < mock.count - 1)

RunContinuousTurn(tv, bd, av, result, latency) ==
    /\ mock.pc = "continuous"
    /\ LET is_edge == mock.i % 50 = 0 /\ mock.i > 0
           g == generate_edge_case(mock.self, timestamp_ms_at(now),
                                   as_u8(mock.i % 6))
       IN  IF is_edge
           THEN SendAndSleep(g.self, g.telemetry, TRUE, {as_u8(mock.i % 6) % 6}, result,
                             latency, TRUE)
           ELSE SendAndSleep(mock.self,
                             generate_normal_telemetry(mock.self,
                                                       timestamp_ms_at(now),
                                                       tv, bd, av),
                             FALSE, {}, result, latency, TRUE)

\* the end of a counted mode: the report, and the return to main
ModeReturns(wait) ==
    /\ mock.pc \in {"normal", "edge", "mixed"}
    /\ mock.i = mock.count
    /\ now' = now + wait
    /\ report_out' = [report_out EXCEPT
                         !.main = Some(main_report(mock.self.metrics, now'))]
    /\ mock' = [mock EXCEPT !.pc = "returned"]
    /\ MockFrame

NextMock ==
    \/ \E mode \in Modes, count \in Counts : EnterMode(mode, count)
    \/ \E tv \in TempVariations, bd \in BatteryDrains, av \in AntennaVariations,
          res \in SendResults, l \in SendLatencies :
           RunNormalTurn(tv, bd, av, res, l)
    \/ \E res \in SendResults, l \in SendLatencies : RunEdgeCaseTurn(res, l)
    \/ \E e \in BOOLEAN, tv \in TempVariations, bd \in BatteryDrains,
          av \in AntennaVariations, res \in SendResults, l \in SendLatencies :
           RunMixedTurn(e, tv, bd, av, res, l)
    \/ \E tv \in TempVariations, bd \in BatteryDrains, av \in AntennaVariations,
          res \in SendResults, l \in SendLatencies :
           mock.i < MaxContinuous /\ RunContinuousTurn(tv, bd, av, res, l)
    \/ \E w \in ReportWaits : ModeReturns(w)

\* continuous mode with every send succeeding
NextContinuous ==
    \/ EnterMode("continuous", 0)
    \/ \E tv \in TempVariations, bd \in BatteryDrains, av \in AntennaVariations,
          l \in SendLatencies :
           mock.i < MaxTurns /\ RunContinuousTurn(tv, bd, av, "Ok", l)

----------------------------------------------------------------------------
(* Initial state *)

Init ==
    /\ metrics = GCSPerformanceMetrics_new(0)
    /\ faults = <<>>
    /\ outcomes = <<>>
    /\ raised = <<>>
    /\ received = <<>>
    /\ gcs = GCS_new
    /\ gcs_pc = "loop"
    /\ report_out = Report_none
    /\ mock = MockOCS_new(0)
    /\ now = 0
    /\ queue = <<>>
    /\ execution_history = <<>>
    /\ next_command_id = 1
    /\ last_result = None
    /\ issued = <<>>
    /\ drain_start = 1
    /\ full_adds = <<>>
    /\ ocs_metrics = PerformanceMetrics_new(0)
    /\ calls = 0
    /\ executions = 0
    /\ dispatches = <<>>
    /\ codec = Codec_idle
    /\ uplink = Uplink_idle
    /\ state = OperationalState_new(0)
    /\ mutex = None
    /\ receiver = [r \in Receivers |-> Receiver_idle]

SpecGCS == Init /\ [][NextGCS]_vars
SpecCrit == Init /\ [][NextCrit]_vars
SpecDecode == Init /\ [][NextDecode]_vars
SpecQueue == Init /\ [][NextQueue]_vars
SpecFill == Init /\ [][NextFill]_vars
SpecCodec == Init /\ [][NextCodec]_vars
SpecGen == Init /\ [][NextGen]_vars

SpecUplink == Init /\ [][NextUplink]_vars

SpecReceiver == Init /\ [][NextReceiver]_vars

SpecRecord == Init /\ [][NextRecord]_vars
SpecReport == Init /\ [][NextReport]_vars
SpecMock == Init /\ [][NextMock]_vars
SpecContinuous == Init /\ [][NextContinuous]_vars

Next == NextGCS \/ NextQueue \/ NextFill \/ NextRecord \/ NextReport \/ NextReceiver
           \/ NextCodec \/ NextGen \/ NextUplink \/ NextMock \/ NextContinuous \/ NextDecode
Spec == Init /\ [][Next]_vars

----------------------------------------------------------------------------
(* Link health: what the receive history says should have happened *)

NumFaults(f) == Cardinality({i \in 1..Len(faults) : faults[i] = f})

LastOutcomes(k) == SubSeq(outcomes, Len(outcomes) - k + 1, Len(outcomes))

\* a..b is a maximal run of consecutive receive errors of the history so far
ErrorRun(a, b) ==
    /\ a <= b
    /\ \A i \in a..b : outcomes[i] = "err"
    /\ (a > 1 => outcomes[a-1] # "err")
    /\ (b < Len(outcomes) => outcomes[b+1] # "err")

\* the iterations of a..b that recorded a LossOfContact fault
LossOfContactIn(a, b) == {i \in a..b : raised[i] = <<LossOfContact>>}

\* C1: every run of three or more consecutive receive errors records exactly
\* one LossOfContact fault, recorded by one of its first three errors (the
\* fourth and every later error of the run records none); a run that follows
\* a successful receive records its own fault again; and only a receive
\* error records LossOfContact.
C1_EdgeTriggered ==
    /\ \A a, b \in 1..Len(outcomes) :
           (ErrorRun(a, b) /\ b - a + 1 >= 3)
               => /\ Cardinality(LossOfContactIn(a, b)) = 1
                  /\ LossOfContactIn(a, b) \subseteq a..(a + 2)
    /\ \A i \in 1..Len(outcomes) :
           outcomes[i] # "err" => LossOfContact \notin {raised[i][k] : k \in 1..Len(raised[i])}

\* three errors, a success, three more errors: the second fault is recorded
C1_Witness ==
    /\ outcomes = <<"err", "err", "err", "valid", "err", "err", "err">>
    /\ LossOfContactIn(1, 7) = {3, 7}
    /\ NumFaults(LossOfContact) = 2

\* C2: three consecutive undecodable datagrams (no valid packet between)
\* bring consecutive_lost to the threshold and raise LossOfContact, as three
\* receive errors do.
C2_DecodeFailuresReachThreshold ==
    (Len(outcomes) >= 3 /\ LastOutcomes(3) = <<"invalid", "invalid", "invalid">>)
        => /\ metrics.consecutive_lost >= LOSS_OF_CONTACT_THRESHOLD
           /\ NumFaults(LossOfContact) >= 1

\* C3: loss_of_contact_count equals the number of LossOfContact faults
\* recorded, in every reachable state.
C3_CountMatchesFaults ==
    metrics.loss_of_contact_count = NumFaults(LossOfContact)

\* C8: packets_received = valid_packets + invalid_packets in every state of
\* the receive loop.
C8_ReceivedSplit ==
    metrics.packets_received = metrics.valid_packets + metrics.invalid_packets

C8_Witness ==
    /\ metrics.valid_packets >= 2
    /\ metrics.invalid_packets >= 2
    /\ metrics.packets_lost > metrics.invalid_packets

\* C10: right after a successfully decoded packet consecutive_lost is 0,
\* whatever preceded it; three receive errors then one success leave exactly
\* one LossOfContact fault.
C10_SuccessResets ==
    /\ (Len(outcomes) >= 1 /\ LastOutcomes(1) = <<"valid">>)
           => metrics.consecutive_lost = 0
    /\ outcomes = <<"err", "err", "err", "valid">>
           => NumFaults(LossOfContact) = 1

C10_Witness ==
    /\ outcomes = <<"err", "err", "err", "valid">>
    /\ metrics.consecutive_lost = 0
    /\ metrics.packets_lost = 3
    /\ NumFaults(LossOfContact) = 1

\* C20: every iteration that decoded a record raised exactly one fault,
\* HighTemperature with the record's temperature, if the record is critical
\* (by temperature or by battery voltage), and no fault otherwise, also when
\* the antenna angle alone makes the record an edge case.
C20_CriticalRaisesHighTemperature ==
    \A i \in 1..Len(outcomes) :
        outcomes[i] = "valid" =>
            LET r == Unwrap(from_bytes(received[i]))
                critical == r.temperature > 100 \/ r.temperature < -40
                                \/ r.battery_mv < 3000
            IN  raised[i] = IF critical
                            THEN <<HighTemperature(r.temperature)>>
                            ELSE <<>>

\* low battery, antenna only, hot
C20_Witness ==
    /\ received = <<to_bytes(LowBattRecord), to_bytes(AntennaRecord), to_bytes(HotRecord)>>
    /\ raised = << <<HighTemperature(20)>>, <<>>, <<HighTemperature(125)>> >>
    /\ metrics.faults_detected = 2

\* C21: an iteration whose datagram fails to decode raises exactly one fault,
\* PacketLoss(1), adds one to each of packets_received, invalid_packets and
\* packets_lost, and leaves valid_packets, edge_cases_detected and
\* critical_events as they were.
C21_DecodeFailureCounted ==
    [][outcomes' = Append(outcomes, "invalid") =>
          /\ raised' = Append(raised, <<PacketLoss(1)>>)
          /\ faults' = Append(faults, PacketLoss(1))
          /\ metrics'.faults_detected = metrics.faults_detected + 1
          /\ metrics'.packets_received = metrics.packets_received + 1
          /\ metrics'.invalid_packets = metrics.invalid_packets + 1
          /\ metrics'.packets_lost = metrics.packets_lost + 1
          /\ metrics'.valid_packets = metrics.valid_packets
          /\ metrics'.edge_cases_detected = metrics.edge_cases_detected
          /\ metrics'.critical_events = metrics.critical_events]_vars

\* a hot record, then a truncated datagram
C21_Witness ==
    /\ outcomes = <<"valid", "invalid">>
    /\ raised = << <<HighTemperature(125)>>, <<PacketLoss(1)>> >>
    /\ metrics.packets_received = 2
    /\ metrics.invalid_packets = 1
    /\ metrics.packets_lost = 1
    /\ metrics.valid_packets = 1
    /\ metrics.edge_cases_detected = 1
    /\ metrics.critical_events = 1

\* C22: every fault the GCS raises starts a response-time measurement that
\* ends with one sample appended to fault_response_times_ms.  In finite runs:
\* as long as fewer samples have been recorded than faults raised, a
\* measurement is under way, the GCS holding a fault as active.
C22_FaultResponseMeasured ==
    Len(faults) > Len(metrics.fault_response_times_ms) => gcs.fault_active

Failure(o) == o \in {"err", "invalid"}

\* the iteration just made ended with outcome o
Ended(o) == outcomes' = Append(outcomes, o)

\* a failed iteration is recorded and run stays in its loop
FailureRecorded ==
    (Ended("err") \/ Ended("invalid")) =>
        /\ metrics'.packets_lost = metrics.packets_lost + 1
        /\ gcs_pc' = "loop"

\* a datagram that decodes after a failure is processed as any other
ContactRegained ==
    (Ended("valid") /\ outcomes # <<>> /\ Failure(outcomes[Len(outcomes)])) =>
        /\ metrics'.consecutive_lost = 0
        /\ metrics'.valid_packets = metrics.valid_packets + 1
        /\ metrics'.packets_received = metrics.packets_received + 1
        /\ metrics'.packets_lost = metrics.packets_lost
        /\ gcs_pc' = "loop"

\* C25: no failure stops the receive loop.  An iteration that fails (receive
\* error or failed decode, a loss of contact included) records the failure
\* and leaves run at the top of its loop, where the next receive can be
\* made; a datagram that decodes after failures is processed as any other and
\* consecutive_lost is 0 after it.
C25_LoopSurvivesFailures ==
    /\ [](gcs_pc = "loop")
    /\ [](Len(outcomes) < MaxIter => ENABLED NextGCS)
    /\ [][FailureRecorded /\ ContactRegained]_vars

\* three errors (loss of contact), an undecodable datagram, then contact again
C25_Witness ==
    /\ outcomes = <<"err", "err", "err", "invalid", "valid">>
    /\ NumFaults(LossOfContact) = 1
    /\ metrics.packets_lost = 4
    /\ metrics.consecutive_lost = 0
    /\ metrics.valid_packets = 1
    /\ gcs_pc = "loop"

CountOutcome(o) == Cardinality({i \in 1..Len(outcomes) : outcomes[i] = o})

\* some three consecutive iterations all failed (receive error or decode failure)
ThreeFailuresInARow ==
    \E i \in 1..Len(outcomes) :
        /\ i + 2 <= Len(outcomes)
        /\ Failure(outcomes[i]) /\ Failure(outcomes[i + 1]) /\ Failure(outcomes[i + 2])

\* C11: as long as no three consecutive iterations have failed (receive
\* errors or decode failures), no LossOfContact fault has been recorded and
\* loss_of_contact_count is 0; and then, of the N datagrams received, k of
\* them undersized, packets_received = N, invalid_packets = k and
\* valid_packets = N - k.
C11_NoContactLossBelowThreshold ==
    ~ThreeFailuresInARow =>
        /\ NumFaults(LossOfContact) = 0
        /\ metrics.loss_of_contact_count = 0
        /\ metrics.packets_received = CountOutcome("valid") + CountOutcome("invalid")
        /\ metrics.invalid_packets = CountOutcome("invalid")
        /\ metrics.valid_packets = metrics.packets_received - metrics.invalid_packets

\* normal, truncated, normal ... with pairs of failures but never three
C11_Witness ==
    /\ outcomes = <<"valid", "invalid", "valid", "err", "err", "valid", "invalid">>
    /\ metrics.packets_received = 5
    /\ metrics.invalid_packets = 2
    /\ metrics.valid_packets = 3
    /\ metrics.loss_of_contact_count = 0

----------------------------------------------------------------------------
(* Command queue *)

PriorityOf(command_id) == issued[command_id]

\* a is dispatched before b: higher priority, or equal priority and earlier arrival
Before(pa, ida, pb, idb) == pa > pb \/ (pa = pb /\ ida < idb)

\* C4: every add_command on a full queue removed exactly one command, the
\* earliest-enqueued of those present, and inserted the new one.
C4_FifoEviction ==
    \A k \in 1..Len(full_adds) :
        /\ full_adds[k].gone = {full_adds[k].oldest}
        /\ full_adds[k].added

\* C5: the queue is sorted by descending priority with equal priorities in
\* arrival order, and the commands executed since the last add_command came
\* out in that order.
C5_PriorityThenArrival ==
    /\ \A i, j \in 1..Len(queue) :
           i < j => Before(queue[i].priority, queue[i].command_id,
                           queue[j].priority, queue[j].command_id)
    /\ \A i, j \in drain_start..Len(execution_history) :
           i < j => Before(PriorityOf(execution_history[i].command_id),
                           execution_history[i].command_id,
                           PriorityOf(execution_history[j].command_id),
                           execution_history[j].command_id)

\* priorities [5,1,5,3] dispatch as first 5, second 5, 3, 1
C5_Witness ==
    /\ issued = <<5, 1, 5, 3>>
    /\ drain_start = 1
    /\ [i \in 1..Len(execution_history) |-> execution_history[i].command_id]
           = <<1, 3, 4, 2>>

\* C6: the queue never holds more than 20 commands, and every add_command on
\* a full queue left it at exactly 20.
C6_QueueBounded ==
    /\ queue_len(queue) <= 20
    /\ \A k \in 1..Len(full_adds) : full_adds[k].after = 20

C6_Witness ==
    /\ Len(full_adds) >= 1
    /\ queue_len(queue) = 20
    /\ executions = 1

\* C7: execute_next on a non-empty queue removes exactly one command, one of
\* highest priority among those queued, and returns a record with its id; on
\* an empty queue it returns None and leaves queue and history as they were.
C7_ExecuteNext ==
    [][executions' = executions + 1 =>
        IF queue = <<>>
        THEN /\ last_result' = None
             /\ queue' = queue
             /\ execution_history' = execution_history
        ELSE \E i \in 1..Len(queue) :
                /\ \A j \in 1..Len(queue) : queue[j].priority <= queue[i].priority
                /\ queue' = [k \in 1..(Len(queue) - 1) |->
                                IF k < i THEN queue[k] ELSE queue[k + 1]]
                /\ IsSome(last_result')
                /\ Unwrap(last_result').command_id = queue[i].command_id]_vars

\* an execute_next on an empty queue and two on a non-empty one have happened
C7_Witness ==
    /\ executions > Len(execution_history)
    /\ Len(execution_history) >= 2
    /\ IsSome(last_result)
    /\ PriorityOf(Unwrap(last_result).command_id) = 3
    /\ queue # <<>>

----------------------------------------------------------------------------
(* Metrics *)

GcsCounters ==
    {"packets_received", "valid_packets", "invalid_packets", "packets_lost",
     "loss_of_contact_count", "edge_cases_detected", "critical_events",
     "total_bytes_received", "commands_received", "commands_dispatched",
     "commands_overdue", "commands_rejected", "faults_detected", "interlock_count"}

OcsCounters ==
    {"packets_sent", "total_bytes_sent", "edge_case_count", "commands_received",
     "commands_executed", "commands_overdue", "faults_injected", "safety_alerts"}

\* C9: no cumulative counter of either metrics object decreases in any step.
C9_CountersMonotone ==
    [][/\ \A c \in GcsCounters : metrics'[c] >= metrics[c]
       /\ \A c \in OcsCounters : ocs_metrics'[c] >= ocs_metrics[c]]_vars

C9_Witness ==
    /\ metrics.loss_of_contact_count = 1
    /\ metrics.packets_lost = 3
    /\ metrics.consecutive_lost = 0

----------------------------------------------------------------------------
(* Command receiver and OperationalState *)

Toggling(r) == receiver[r].pc = "inject_sleep"

\* the spellings of each verb among the words sent
Spellings(verb) ==
    CASE verb = "INJECT_FAULT" -> {"INJECT_FAULT", "inject_fault"}
      [] verb = "SET_MODE"     -> {"SET_MODE", "Set_Mode"}
      [] verb = "GET_STATUS"   -> {"GET_STATUS"}
      [] verb = "PING"         -> {"PING", "ping"}
      [] verb = "SHUTDOWN"     -> {"SHUTDOWN"}

Verbs == {"INJECT_FAULT", "SET_MODE", "GET_STATUS", "PING", "SHUTDOWN"}

Words(text) == SelectSeq(text, LAMBDA w : w # " ")

\* receiver r has just taken a datagram from its socket
Took(r) == receiver'[r].handled = receiver[r].handled + 1

\* C23: the first word of a command is matched whatever its case, any first
\* word that is none of the five verbs gets the unknown-command response,
\* and such a command leaves OperationalState as it was and every receiver
\* running.
C23_VerbMatching ==
    [][\A r \in Receivers :
          Took(r) /\ Words(receiver'[r].last_cmd) # <<>> =>
              LET first == Words(receiver'[r].last_cmd)[1]
                  me == receiver'[r]
              IN  /\ first \in Spellings("INJECT_FAULT") => me.pc = "inject_fault"
                  /\ first \in Spellings("SET_MODE") => me.pc = "set_mode"
                  /\ first \in Spellings("GET_STATUS") => me.pc = "get_status"
                  /\ first \in Spellings("PING") =>
                         me.pc = "recv" /\ me.response = Some(<<"[OCS] PONG">>)
                  /\ (\A v \in Verbs : first \notin Spellings(v)) =>
                         /\ me.response = Some(<<"[OCS] Unknown command: ", first>>)
                         /\ me.pc = "recv"
                         /\ state' = state
                         /\ \A q \in Receivers : receiver'[q].pc = receiver[q].pc
         ]_vars

C23_Witness ==
    /\ receiver[1].last_cmd = <<"REBOOT", " ", "now">>
    /\ receiver[1].response = Some(<<"[OCS] Unknown command: ", "REBOOT">>)
    /\ receiver[1].pc = "recv"
    /\ receiver[2].last_cmd = <<"inject_fault">>
    /\ receiver[2].pc = "inject_fault"


\* C12: while a receiver is between the set and the clear of fault_mode_active
\* of one INJECT_FAULT, the OperationalState is as that receiver left it: no
\* other holder of the state has changed the mode or any other field.
C12_ToggleExclusive ==
    \A r \in Receivers : Toggling(r) => state = Unwrap(receiver[r].seen)

----------------------------------------------------------------------------
(* Telemetry codec and classifier *)

Decoded == codec.stage \in {"decoded", "classified"}

\* byte k (from the least significant) of a non-negative number
ByteOf(v, k) == (v \div (256 ^ k)) % 256

\* the 16 bits of a signed number, as an unsigned one
TwosComplement16(x) == (x + 65536) % 65536

Magnitude(x) == IF x < 0 THEN -x ELSE x

\* C13: for every record, over the full range of each field, the ground-side
\* from_bytes applied to what either spacecraft-side to_bytes produced
\* returns a record equal to the original field by field.
C13_RoundTrip ==
    Decoded /\ codec.buffer = codec.bytes =>
        LET r == Unwrap(codec.record)
            d == Unwrap(codec.decoded)
            e == Unwrap(from_bytes(codec.bytes_main))
        IN  /\ IsSome(codec.decoded)
            /\ d.timestamp_ms = r.timestamp_ms
            /\ d.temperature = r.temperature
            /\ d.battery_mv = r.battery_mv
            /\ d.antenna_angle = r.antenna_angle
            /\ IsSome(from_bytes(codec.bytes_main))
            /\ e.timestamp_ms = r.timestamp_ms
            /\ e.temperature = r.temperature
            /\ e.battery_mv = r.battery_mv
            /\ e.antenna_angle = r.antenna_angle

\* the largest timestamp, the lowest temperature, a negative angle
C13_Witness ==
    /\ codec.stage = "decoded"
    /\ codec.buffer = codec.bytes
    /\ codec.record = Some([timestamp_ms |-> <<65535, 65535, 65535, 65535>>,
                            temperature |-> -32768, battery_mv |-> 65535,
                            antenna_angle |-> -46])
    /\ codec.decoded = codec.record

\* C14: decoding a buffer of 0 to 13 bytes returns None, from both decoders,
\* and decoding a buffer of 14 bytes or more returns a value.
C14_ShortBufferNone ==
    Decoded =>
        /\ Len(codec.buffer) \in 0..13 =>
               codec.decoded = None /\ codec.decoded_ocs = None
        /\ Len(codec.buffer) >= 14 =>
               IsSome(codec.decoded) /\ IsSome(codec.decoded_ocs)

C14_Witness ==
    /\ codec.stage = "decoded"
    /\ Len(codec.buffer) = 13
    /\ codec.decoded = None
    /\ codec.decoded_ocs = None

\* C15: to_bytes yields exactly 14 bytes: the timestamp at offsets 0..8, the
\* temperature at 8..10, the battery voltage at 10..12 and the antenna angle
\* at 12..14, each least significant byte first; and the encoder of
\* mock_ocs/main.rs yields the same bytes as that of mock_ocs/telemetry.rs.
C15_Layout ==
    codec.stage \notin {"idle", "generated"} =>
        LET r == Unwrap(codec.record)
            b == codec.bytes
        IN  /\ Len(b) = 14
            /\ \A k \in 0..7 :
                   b[k + 1] = ByteOf(r.timestamp_ms[(k \div 2) + 1], k % 2)
            /\ \A k \in 0..1 :
                   /\ b[9 + k] = ByteOf(TwosComplement16(r.temperature), k)
                   /\ b[11 + k] = ByteOf(r.battery_mv, k)
                   /\ b[13 + k] = ByteOf(TwosComplement16(r.antenna_angle), k)
            /\ codec.bytes_main = b

\* timestamp 0x0807060504030201, temperature -1, battery 3000, angle -46
C15_Witness ==
    /\ codec.stage = "encoded"
    /\ Unwrap(codec.record).temperature = -1
    /\ codec.bytes = <<1, 2, 3, 4, 5, 6, 7, 8, 255, 255, 184, 11, 210, 255>>
    /\ codec.bytes_main = codec.bytes

\* C16: is_critical is true exactly when temperature > 100 or temperature <
\* -40 or battery_mv < 3000; 100, -40 and 3000 themselves are not critical,
\* 101, -41 and 2999 are; the antenna angle has no influence.
C16_Critical ==
    codec.stage = "classified" =>
        LET d == Unwrap(codec.decoded)
        IN  /\ codec.critical <=>
                   (d.temperature > 100 \/ d.temperature < -40 \/ d.battery_mv < 3000)
            /\ d.temperature \in {100, -40} /\ d.battery_mv = 3000 => ~codec.critical
            /\ d.temperature \in {101, -41} => codec.critical
            /\ d.battery_mv = 2999 => codec.critical
            /\ \A a \in Angles :
                   is_critical([d EXCEPT !.antenna_angle = a]) = codec.critical

C16_Witness ==
    /\ codec.stage = "classified"
    /\ Unwrap(codec.decoded).temperature = 100
    /\ Unwrap(codec.decoded).battery_mv = 3000
    /\ Unwrap(codec.decoded).antenna_angle = 46
    /\ ~codec.critical

\* C17: is_edge_case returns, for every record over the whole i16 range of
\* antenna_angle, the truth of "is_critical or |antenna_angle| > 45".
C17_EdgeCase ==
    codec.stage = "classified" =>
        LET d == Unwrap(codec.decoded)
        IN  /\ ~codec.edge.panicked
            /\ codec.edge.value <=>
                   (is_critical(d) \/ Magnitude(d.antenna_angle) > 45)

----------------------------------------------------------------------------
(* Deadlines *)

\* C19: is_overdue is true exactly when the time elapsed since the command
\* was issued is strictly greater than its deadline: with deadline 0 any
\* non-zero elapsed time is overdue, elapsed equal to the deadline is not, and
\* a one-hour deadline checked at once is not.
C19_StrictlyAfterDeadline ==
    uplink.stage = "issued" =>
        LET command == Unwrap(uplink.command)
        IN  \A k \in 1..Len(uplink.checks) :
                LET passed == uplink.checks[k].at - command.timestamp
                    overdue == uplink.checks[k].overdue
                IN  /\ overdue <=> passed > command.deadline
                    /\ command.deadline = 0 /\ passed > 0 => overdue
                    /\ passed = command.deadline => ~overdue
                    /\ command.deadline = 3600000 /\ passed = 0 => ~overdue

\* deadline 2: not overdue after 2, overdue after 3
C19_Witness ==
    /\ uplink.stage = "issued"
    /\ Unwrap(uplink.command).deadline = 2
    /\ uplink.checks = <<[at |-> 2, overdue |-> FALSE], [at |-> 3, overdue |-> TRUE]>>

\* the record handed back by the dispatch says the command was overdue
ReportedOverdue(record) == "overdue" \in DOMAIN record /\ record.overdue

\* dispatched later than the deadline after it was issued
Late(d, deadline) == d.dispatched_at - d.issued_at > deadline

\* C18: whether a command is overdue is decided when it is dispatched and
\* reported with the outcome.  For commands issued with a deadline of zero:
\* every command dispatched at a later instant than it was issued is reported
\* overdue and counted in commands_overdue, every other one is not.
C18_OverdueAtDispatch ==
    /\ \A k \in 1..Len(dispatches) :
           ReportedOverdue(dispatches[k].record) <=> Late(dispatches[k], 0)
    /\ ocs_metrics.commands_overdue + metrics.commands_overdue
           = Cardinality({k \in 1..Len(dispatches) : Late(dispatches[k], 0)})

\* C24: no failure is dropped silently.  For a command datagram that is empty
\* or holds only whitespace: once the receiver is done with it, it has
\* answered with a rejection or a counter of received or rejected commands
\* has moved.
C24_EmptyCommandReported ==
    \A r \in Receivers :
        /\ receiver[r].handled > 0
        /\ receiver[r].pc = "recv"
        /\ Words(receiver[r].last_cmd) = <<>>
        => \/ IsSome(receiver[r].response)
           \/ ocs_metrics.commands_received > 0
           \/ metrics.commands_received > 0
           \/ metrics.commands_rejected > 0

----------------------------------------------------------------------------
(* Timing samples and reports *)

\* C26: a jitter sample is recorded exactly when a datagram is received and
\* decoded and an earlier arrival instant exists; a receive error or a failed
\* decode records none and does not move the arrival instant.  So the
\* samples number one less than the decoded datagrams, and none before the
\* first of them.
C26_JitterOnlyOnSuccess ==
    Len(metrics.jitter_us) = Max(0, CountOutcome("valid") - 1)


\* the figures of the reports made so far
ReportsMade ==
    {report_out[k][1] : k \in {k \in {"gcs", "ocs"} : report_out[k] # None}}

\* C27: producing a report never divides by zero: each average (decode
\* latency, jitter, fault response, send latency, drift, recovery) is 0 when
\* its sample count is 0, and the packets-per-second figure is a finite
\* number, no division with a zero divisor having been made for it, also
\* when no time has elapsed.
C27_ReportNeverDividesByZero ==
    \A r \in ReportsMade :
        /\ ~r.packets_per_second.zero_divisor
        /\ r.packets_per_second.class = "finite"


\* C28: the jitter and fault-response-time sample collections are bounded:
\* there is a fixed capacity that their lengths never exceed, however many
\* packets are received and faults responded to.  Stated for the recordings
\* explored: the lengths stay below the number of recordings made, so some
\* capacity smaller than that number is respected.
C28_SampleCollectionsBounded ==
    /\ Len(metrics.jitter_us) < MaxOps - 1
    /\ Len(metrics.fault_response_times_ms) < MaxOps


----------------------------------------------------------------------------
(* Counters of the spacecraft side *)

\* C29: in every run mode (normal, edge, mixed, continuous) and after every
\* turn of its loop, packets_sent equals the number of datagrams whose
\* socket send succeeded, edge_case_count the number of those that were edge
\* cases, and total_bytes_sent is 14 times packets_sent.
C29_SendCountersExact ==
    mock.pc # "main" =>
        /\ mock.self.metrics.packets_sent = mock.sends_ok
        /\ mock.self.metrics.edge_case_count = mock.edge_sends_ok
        /\ mock.self.metrics.total_bytes_sent
               = TELEMETRY_SIZE * mock.self.metrics.packets_sent


----------------------------------------------------------------------------
(* Fault accounting of the receive loop *)

RECURSIVE ConsecutiveAfter(_)
\* failures in a row at the end of iteration k, told from the outcomes alone:
\* a datagram ends the run of failures, and starts a new one if it does not
\* decode
ConsecutiveAfter(k) ==
    IF k = 0 THEN 0
    ELSE CASE outcomes[k] = "err"     -> ConsecutiveAfter(k - 1) + 1
           [] outcomes[k] = "invalid" -> 1
           [] OTHER                   -> 0

\* receive errors at which the run of failures became exactly three long
ReachedThreshold ==
    {k \in 1..Len(outcomes) :
        outcomes[k] = "err" /\ ConsecutiveAfter(k) = LOSS_OF_CONTACT_THRESHOLD}

\* C30: at every iteration boundary of the receive loop the fault total is
\* fully accounted for: faults_detected = critical_events + invalid_packets
\* + (number of times consecutive_lost reached exactly 3 on a receive error),
\* and packets_lost = invalid_packets + (number of receive errors).
C30_FaultsAccounted ==
    /\ metrics.consecutive_lost = ConsecutiveAfter(Len(outcomes))
    /\ metrics.faults_detected
           = metrics.critical_events + metrics.invalid_packets
             + Cardinality(ReachedThreshold)
    /\ metrics.packets_lost = metrics.invalid_packets + CountOutcome("err")

\* a critical record, a truncated datagram and two errors (threshold reached
\* through the decode failure), then three more errors and, after a normal
\* record, nothing further
C30_Witness ==
    /\ outcomes = <<"valid", "invalid", "err", "err", "err", "err", "valid">>
    /\ metrics.critical_events = 1
    /\ metrics.invalid_packets = 1
    /\ Cardinality(ReachedThreshold) = 1
    /\ metrics.faults_detected = 3
    /\ metrics.packets_lost = 5


----------------------------------------------------------------------------
(* Frame of the command handlers *)

\* receiver r moves from statement a to statement b
Moves(r, a, b) == receiver[r].pc = a /\ receiver'[r].pc = b

\* the name SET_MODE was given by the command receiver r took last
ModeAsked(r) ==
    IF Len(Words(receiver[r].last_cmd)) >= 2
    THEN Words(receiver[r].last_cmd)[2] ELSE "normal"

\* the steps of INJECT_FAULT touch fault_mode_active only
InjectFrame(r) ==
    (receiver[r].pc \in {"inject_fault", "inject_sleep", "inject_recover"}
         /\ receiver'[r] # receiver[r])
    => /\ state'.mode = state.mode
       /\ state'.safety_alert_active = state.safety_alert_active
       /\ state'.last_fault_injection = state.last_fault_injection
       /\ state'.consecutive_missed_thermal = state.consecutive_missed_thermal

\* INJECT_FAULT returns with fault_mode_active false
InjectEndsCleared(r) ==
    Moves(r, "inject_recover", "recv") => ~state'.fault_mode_active

\* SET_MODE writes the name asked for and nothing else
SetModeFrame(r) ==
    Moves(r, "set_mode", "recv") => state' = [state EXCEPT !.mode = ModeAsked(r)]

\* taking a datagram (PING and unknown verbs end there) and GET_STATUS
\* leave the state as it was
ReadOnlyFrame(r) ==
    (Took(r) \/ Moves(r, "get_status", "recv")) => state' = state

\* C31: each command handler changes only its own part of OperationalState:
\* when INJECT_FAULT completes fault_mode_active is false and no step of it
\* changed mode, safety_alert_active or last_fault_injection; SET_MODE
\* changes only mode (to the given name, or "normal" when none is given),
\* whether or not a fault is active; GET_STATUS, PING and unknown verbs
\* change nothing.
C31_HandlerFrames ==
    [][\A r \in Receivers :
          InjectFrame(r) /\ InjectEndsCleared(r) /\ SetModeFrame(r) /\ ReadOnlyFrame(r)
      ]_vars

\* receiver 2 set the mode while the fault injected by receiver 1 was active,
\* and receiver 1 has then completed its INJECT_FAULT
C31_Witness ==
    /\ receiver[2].last_cmd = <<"SET_MODE", " ", "safe">>
    /\ IsSome(receiver[2].seen)
    /\ Unwrap(receiver[2].seen).fault_mode_active
    /\ Unwrap(receiver[2].seen).mode = "safe"
    /\ receiver[1].last_cmd = <<"INJECT_FAULT", " ", "temp">>
    /\ receiver[1].pc = "recv"
    /\ IsSome(receiver[1].response)
    /\ state.mode = "safe"
    /\ ~state.fault_mode_active


----------------------------------------------------------------------------
(* Real-time verdict of the report *)

\* C32: the report's overall real-time verdict agrees with the per-packet
\* latency flag: whenever a report is printed, it states that all real-time
\* constraints are met if and only if no decoded packet has been flagged for
\* a decode latency above 3000 microseconds, also when the largest decode
\* latency is exactly 3000.
C32_VerdictMatchesFlags ==
    [][report_out'.gcs # report_out.gcs =>
          (Unwrap(report_out'.gcs).realtime_status = "All real-time constraints MET"
              <=> report_out'.latency_warnings = <<>>)
      ]_vars


----------------------------------------------------------------------------
(* Generator and ground classifier *)

\* C33: the generator and the ground classifier agree: every record made by
\* generate_normal (temperature 20 +/- 10, battery 8000 minus 1..5, angle
\* within +/- 5) is classified neither critical nor edge case on the ground,
\* and every record made by generate_edge_case, for every case_type 0..255,
\* is classified edge case, and critical exactly for case_type mod 6 in
\* {0, 1, 2, 3}.
C33_GeneratorAgreesWithClassifier ==
    codec.stage = "classified" /\ IsSome(codec.origin) =>
        LET o == Unwrap(codec.origin)
        IN  /\ ~codec.edge.panicked
            /\ Unwrap(codec.decoded) = Unwrap(codec.record)
            /\ o.kind = "normal" => ~codec.critical /\ ~codec.edge.value
            /\ o.kind = "edge" =>
                   /\ codec.edge.value
                   /\ codec.critical <=> (o.case_type % 6) \in {0, 1, 2, 3}

\* case_type 255 is the critical battery kind (255 mod 6 = 3)
C33_Witness ==
    /\ codec.stage = "classified"
    /\ codec.origin = Some([kind |-> "edge", case_type |-> 255])
    /\ Unwrap(codec.decoded).battery_mv = 0
    /\ codec.critical
    /\ codec.edge.value


----------------------------------------------------------------------------
(* Edge cases of continuous mode *)

EdgeCaseKinds == 0..5

\* C34: in continuous mode, with all sends succeeding, each of the six edge
\* case kinds (extreme cold, extreme heat, low battery, critical battery,
\* antenna -90, antenna +90) is emitted.  An edge case is due at every 50th
\* counter value and its kind is counter % 6, so the schedule repeats every
\* 150 counter values: after the counter values 0..300, two full rounds of
\* it, an edge case of every kind 0..5 has been generated.
C34_EveryKindEmitted ==
    mock.pc = "continuous" /\ mock.i >= MaxTurns => mock.edge_kinds = EdgeCaseKinds


----------------------------------------------------------------------------
(* Ordering of the reception counters *)

\* C35: in every reachable state of the GCS metrics, critical_events <=
\* edge_cases_detected <= valid_packets <= packets_received, and when
\* valid_packets > 0 then min_decode_us <= max_decode_us and
\* min_decode_us * valid_packets <= decode_latency_us
\* <= max_decode_us * valid_packets.
C35_CounterOrdering ==
    /\ metrics.critical_events <= metrics.edge_cases_detected
    /\ metrics.edge_cases_detected <= metrics.valid_packets
    /\ metrics.valid_packets <= metrics.packets_received
    /\ metrics.valid_packets > 0 =>
           /\ metrics.min_decode_us <= metrics.max_decode_us
           /\ metrics.min_decode_us * metrics.valid_packets <= metrics.decode_latency_us
           /\ metrics.decode_latency_us <= metrics.max_decode_us * metrics.valid_packets

\* a critical record, an edge case that is not critical and a truncated
\* datagram, decoded in different times
C35_Witness ==
    /\ outcomes = <<"valid", "valid", "invalid">>
    /\ metrics.critical_events = 1
    /\ metrics.edge_cases_detected = 2
    /\ metrics.valid_packets = 2
    /\ metrics.packets_received = 3
    /\ metrics.min_decode_us = 100
    /\ metrics.max_decode_us = 3001
    /\ metrics.decode_latency_us = 3101

====
